---- MODULE Spec2Model ----
(***************************************************************************)
(* The conversation qualification engine of the dental lead qualifier:    *)
(* AIService (src/src/services/ai_service.py) and QualificationData       *)
(* (src/src/models/models.py).                                            *)
(*                                                                         *)
(* Python strings are TLA+ strings; Chars gives the characters of the     *)
(* strings the model uses, so that str.lower() and the substring test     *)
(* `sub in s` are computed character by character.  Python's None is the  *)
(* value None.  A coroutine is a task; it is suspended only at its awaits *)
(* of the language-model calls, so each action is the code that runs      *)
(* between two awaits.                                                     *)
(***************************************************************************)
EXTENDS Integers, Sequences, FiniteSets, TLC

None == "<None>"

\* ------------------------------------------------------------------ text

Chars(s) ==
    CASE s = "" -> <<>>
      [] s = "I'm fine now" -> <<"I", "'", "m", " ", "f", "i", "n", "e", " ", "n", "o", "w">>
      [] s = "I can't breathe and there's facial swelling" -> <<"I", " ", "c", "a", "n", "'", "t", " ", "b", "r", "e", "a", "t", "h", "e", " ", "a", "n", "d", " ", "t", "h", "e", "r", "e", "'", "s", " ", "f", "a", "c", "i", "a", "l", " ", "s", "w", "e", "l", "l", "i", "n", "g">>
      [] s = "I have a FEVER" -> <<"I", " ", "h", "a", "v", "e", " ", "a", " ", "F", "E", "V", "E", "R">>
      [] s = "My tooth hurts" -> <<"M", "y", " ", "t", "o", "o", "t", "h", " ", "h", "u", "r", "t", "s">>
      [] s = "can't breathe" -> <<"c", "a", "n", "'", "t", " ", "b", "r", "e", "a", "t", "h", "e">>
      [] s = "difficulty breathing" -> <<"d", "i", "f", "f", "i", "c", "u", "l", "t", "y", " ", "b", "r", "e", "a", "t", "h", "i", "n", "g">>
      [] s = "swelling in throat" -> <<"s", "w", "e", "l", "l", "i", "n", "g", " ", "i", "n", " ", "t", "h", "r", "o", "a", "t">>
      [] s = "severe bleeding" -> <<"s", "e", "v", "e", "r", "e", " ", "b", "l", "e", "e", "d", "i", "n", "g">>
      [] s = "won't stop bleeding" -> <<"w", "o", "n", "'", "t", " ", "s", "t", "o", "p", " ", "b", "l", "e", "e", "d", "i", "n", "g">>
      [] s = "facial swelling" -> <<"f", "a", "c", "i", "a", "l", " ", "s", "w", "e", "l", "l", "i", "n", "g">>
      [] s = "fever" -> <<"f", "e", "v", "e", "r">>
      [] s = "infection" -> <<"i", "n", "f", "e", "c", "t", "i", "o", "n">>
      [] s = "abscess" -> <<"a", "b", "s", "c", "e", "s", "s">>
      [] s = "trauma" -> <<"t", "r", "a", "u", "m", "a">>
      [] s = "accident" -> <<"a", "c", "c", "i", "d", "e", "n", "t">>
      [] s = "knocked out" -> <<"k", "n", "o", "c", "k", "e", "d", " ", "o", "u", "t">>
      [] s = "allergic reaction" -> <<"a", "l", "l", "e", "r", "g", "i", "c", " ", "r", "e", "a", "c", "t", "i", "o", "n">>
      [] s = "9" -> <<"9">>
      [] s = "10" -> <<"1", "0">>
      [] s = "7" -> <<"7">>
      [] s = "8" -> <<"8">>
      [] s = "4" -> <<"4">>
      [] s = "5" -> <<"5">>
      [] s = "6" -> <<"6">>
      [] s = "1" -> <<"1">>
      [] s = "2" -> <<"2">>
      [] s = "3" -> <<"3">>
      [] s = "0" -> <<"0">>
      [] s = "no pain" -> <<"n", "o", " ", "p", "a", "i", "n">>
      [] s = "excruciating" -> <<"e", "x", "c", "r", "u", "c", "i", "a", "t", "i", "n", "g">>
      [] s = "unbearable" -> <<"u", "n", "b", "e", "a", "r", "a", "b", "l", "e">>
      [] s = "severe" -> <<"s", "e", "v", "e", "r", "e">>
      [] s = "moderate" -> <<"m", "o", "d", "e", "r", "a", "t", "e">>
      [] s = "strong" -> <<"s", "t", "r", "o", "n", "g">>
      [] s = "significant" -> <<"s", "i", "g", "n", "i", "f", "i", "c", "a", "n", "t">>
      [] s = "mild" -> <<"m", "i", "l", "d">>
      [] s = "slight" -> <<"s", "l", "i", "g", "h", "t">>
      [] s = "minor" -> <<"m", "i", "n", "o", "r">>
      [] s = "none" -> <<"n", "o", "n", "e">>
      [] s = "no" -> <<"n", "o">>
      [] s = "nothing" -> <<"n", "o", "t", "h", "i", "n", "g">>
      [] s = "emergency" -> <<"e", "m", "e", "r", "g", "e", "n", "c", "y">>
      [] s = "a lot" -> <<"a", " ", "l", "o", "t">>
      [] s = "7 out of 10, not unbearable" -> <<"7", " ", "o", "u", "t", " ", "o", "f", " ", "1", "0", ",", " ", "n", "o", "t", " ", "u", "n", "b", "e", "a", "r", "a", "b", "l", "e">>
      [] s = "Severe" -> <<"S", "e", "v", "e", "r", "e">>
      [] s = "bad" -> <<"b", "a", "d">>
      [] s = "swelling" -> <<"s", "w", "e", "l", "l", "i", "n", "g">>
      [] s = "bleeding" -> <<"b", "l", "e", "e", "d", "i", "n", "g">>
      [] s = "toothache" -> <<"t", "o", "o", "t", "h", "a", "c", "h", "e">>
      [] s = "(555) 123-4567" -> <<"(", "5", "5", "5", ")", " ", "1", "2", "3", "-", "4", "5", "6", "7">>
      [] s = "15551234567" -> <<"1", "5", "5", "5", "1", "2", "3", "4", "5", "6", "7">>
      [] s = "555-000-1111" -> <<"5", "5", "5", "-", "0", "0", "0", "-", "1", "1", "1", "1">>
      [] s = "5551234567" -> <<"5", "5", "5", "1", "2", "3", "4", "5", "6", "7">>
      [] s = "911" -> <<"9", "1", "1">>
      [] s = "low" -> <<"l", "o", "w">>
      [] s = "medium" -> <<"m", "e", "d", "i", "u", "m">>
      [] s = "high" -> <<"h", "i", "g", "h">>
      [] s = "7-8" -> <<"7", "-", "8">>
      [] s = "9-10" -> <<"9", "-", "1", "0">>
      [] s = "1-3" -> <<"1", "-", "3">>
      [] s = "4-6" -> <<"4", "-", "6">>
      [] s = "AI-Qualified-" -> <<"A", "I", "-", "Q", "u", "a", "l", "i", "f", "i", "e", "d", "-">>
      [] s = "Pain-Level-" -> <<"P", "a", "i", "n", "-", "L", "e", "v", "e", "l", "-">>
      [] s = " What brings you in today? " -> <<" ", "W", "h", "a", "t", " ", "b", "r", "i", "n", "g", "s", " ", "y", "o", "u", " ", "i", "n", " ", "t", "o", "d", "a", "y", "?", " ">>
      [] s = "What brings you to Premier Dental today? Are you experiencing any dental pain or discomfort?" -> <<"W", "h", "a", "t", " ", "b", "r", "i", "n", "g", "s", " ", "y", "o", "u", " ", "t", "o", " ", "P", "r", "e", "m", "i", "e", "r", " ", "D", "e", "n", "t", "a", "l", " ", "t", "o", "d", "a", "y", "?", " ", "A", "r", "e", " ", "y", "o", "u", " ", "e", "x", "p", "e", "r", "i", "e", "n", "c", "i", "n", "g", " ", "a", "n", "y", " ", "d", "e", "n", "t", "a", "l", " ", "p", "a", "i", "n", " ", "o", "r", " ", "d", "i", "s", "c", "o", "m", "f", "o", "r", "t", "?">>
      [] s = "Facial Swelling" -> <<"F", "a", "c", "i", "a", "l", " ", "S", "w", "e", "l", "l", "i", "n", "g">>

LowerChar(c) ==
    CASE c = "E" -> "e" [] c = "F" -> "f" [] c = "I" -> "i" [] c = "M" -> "m"
      [] c = "R" -> "r" [] c = "S" -> "s" [] c = "V" -> "v" [] OTHER -> c

\* str.lower()
lower(cs) == [i \in 1..Len(cs) |-> LowerChar(cs[i])]

\* `sub in s` on strings
Contains(sub, cs) ==
    \E i \in 0..(Len(cs) - Len(sub)) : \A j \in 1..Len(sub) : cs[i + j] = sub[j]

\* any(w in s for w in words)
AnyIn(words, cs) == \E w \in words : Contains(Chars(w), cs)

\* str.strip(): without the blanks at both ends
RECURSIVE strip(_)
strip(cs) ==
    IF cs = <<>> THEN cs
    ELSE IF Head(cs) = " " THEN strip(Tail(cs))
    ELSE IF cs[Len(cs)] = " " THEN strip(SubSeq(cs, 1, Len(cs) - 1))
    ELSE cs

\* ------------------------------------------------------------------ models.py

PainLevel_NONE == "0"
PainLevel_MILD == "1-3"
PainLevel_MODERATE == "4-6"
PainLevel_SEVERE == "7-8"
PainLevel_EMERGENCY == "9-10"

PainLevel ==
    {PainLevel_NONE, PainLevel_MILD, PainLevel_MODERATE, PainLevel_SEVERE,
     PainLevel_EMERGENCY}

UrgencyLevel_LOW == "low"
UrgencyLevel_MEDIUM == "medium"
UrgencyLevel_HIGH == "high"
UrgencyLevel_EMERGENCY == "emergency"

UrgencyLevel ==
    {UrgencyLevel_LOW, UrgencyLevel_MEDIUM, UrgencyLevel_HIGH, UrgencyLevel_EMERGENCY}

\* QualificationData(): every field at its default
QualificationData ==
    [chief_complaint |-> None,
     pain_level |-> None,
     urgency |-> UrgencyLevel_LOW,
     insurance_provider |-> None,
     preferred_appointment_time |-> None,
     last_dental_visit |-> None,
     current_medications |-> <<>>,
     allergies |-> <<>>,
     emergency_indicators |-> <<>>]

\* the fields of QualificationData that hold a list
ListFields == {"current_medications", "allergies", "emergency_indicators"}

\* the attributes of a QualificationData that are not fields (methods of the
\* model class): hasattr is true of them, setattr raises ValueError
NonFieldAttrs == {"requires_escalation", "dict", "json", "copy"}

\* (self.chief_complaint or "")
OrEmpty(v) == IF v = None THEN "" ELSE v

requires_escalation(self) ==
    \/ self.pain_level \in {PainLevel_EMERGENCY}
    \/ Contains(Chars("swelling"), lower(Chars(OrEmpty(self.chief_complaint))))
    \/ Contains(Chars("fever"), lower(Chars(OrEmpty(self.chief_complaint))))
    \/ Contains(Chars("trauma"), lower(Chars(OrEmpty(self.chief_complaint))))
    \/ Contains(Chars("bleeding"), lower(Chars(OrEmpty(self.chief_complaint))))
    \/ Len(self.emergency_indicators) > 0

\* ------------------------------------------------------------------ ai_service.py

\* truth value of an Optional[str] field
Falsy(v) == v = None \/ v = ""

\* `if value` for the value of key in the extracted object: a list under a list
\* field, a string under every other key
Truthy(key, value) == IF key \in ListFields THEN Len(value) > 0 ELSE value # ""

\* the rules with the descriptive words tested before the digits
NormalizePainStr_WordsFirst(pain_str) ==
    IF AnyIn({"excruciating", "unbearable", "severe"}, pain_str) THEN PainLevel_SEVERE
    ELSE IF AnyIn({"moderate", "strong", "significant"}, pain_str) THEN PainLevel_MODERATE
    ELSE IF AnyIn({"mild", "slight", "minor"}, pain_str) THEN PainLevel_MILD
    ELSE IF AnyIn({"none", "no", "nothing"}, pain_str) THEN PainLevel_NONE
    ELSE IF AnyIn({"9", "10"}, pain_str) THEN PainLevel_EMERGENCY
    ELSE IF AnyIn({"7", "8"}, pain_str) THEN PainLevel_SEVERE
    ELSE IF AnyIn({"4", "5", "6"}, pain_str) THEN PainLevel_MODERATE
    ELSE IF AnyIn({"1", "2", "3"}, pain_str) THEN PainLevel_MILD
    ELSE IF Contains(Chars("0"), pain_str) \/ Contains(Chars("no pain"), pain_str)
         THEN PainLevel_NONE
    ELSE None

\* the rules with the digits 7 and 8 tested before 9 and 10
NormalizePainStr_SevereFirst(pain_str) ==
    IF AnyIn({"7", "8"}, pain_str) THEN PainLevel_SEVERE
    ELSE IF AnyIn({"9", "10"}, pain_str) THEN PainLevel_EMERGENCY
    ELSE IF AnyIn({"4", "5", "6"}, pain_str) THEN PainLevel_MODERATE
    ELSE IF AnyIn({"1", "2", "3"}, pain_str) THEN PainLevel_MILD
    ELSE IF Contains(Chars("0"), pain_str) \/ Contains(Chars("no pain"), pain_str)
         THEN PainLevel_NONE
    ELSE IF AnyIn({"excruciating", "unbearable", "severe"}, pain_str) THEN PainLevel_SEVERE
    ELSE IF AnyIn({"moderate", "strong", "significant"}, pain_str) THEN PainLevel_MODERATE
    ELSE IF AnyIn({"mild", "slight", "minor"}, pain_str) THEN PainLevel_MILD
    ELSE IF AnyIn({"none", "no", "nothing"}, pain_str) THEN PainLevel_NONE
    ELSE None

\* _normalize_pain_level, lines 220-242: the rules on the lower-cased text
NormalizePainStr(pain_str) ==
    IF AnyIn({"9", "10"}, pain_str) THEN PainLevel_EMERGENCY
    ELSE IF AnyIn({"7", "8"}, pain_str) THEN PainLevel_SEVERE
    ELSE IF AnyIn({"4", "5", "6"}, pain_str) THEN PainLevel_MODERATE
    ELSE IF AnyIn({"1", "2", "3"}, pain_str) THEN PainLevel_MILD
    ELSE IF Contains(Chars("0"), pain_str) \/ Contains(Chars("no pain"), pain_str)
         THEN PainLevel_NONE
    ELSE IF AnyIn({"excruciating", "unbearable", "severe"}, pain_str) THEN PainLevel_SEVERE
    ELSE IF AnyIn({"moderate", "strong", "significant"}, pain_str) THEN PainLevel_MODERATE
    ELSE IF AnyIn({"mild", "slight", "minor"}, pain_str) THEN PainLevel_MILD
    ELSE IF AnyIn({"none", "no", "nothing"}, pain_str) THEN PainLevel_NONE
    ELSE None

_normalize_pain_level(pain_input) == NormalizePainStr(lower(Chars(pain_input)))

\* the urgency raised to emergency by any emergency indicator
_calculate_urgency_Indicators(data) ==
    IF data.pain_level = PainLevel_EMERGENCY \/ Len(data.emergency_indicators) > 0
    THEN UrgencyLevel_EMERGENCY
    ELSE IF data.pain_level = PainLevel_SEVERE THEN UrgencyLevel_HIGH
    ELSE IF data.pain_level = PainLevel_MODERATE THEN UrgencyLevel_MEDIUM
    ELSE UrgencyLevel_LOW

_calculate_urgency(data) ==
    IF data.pain_level = PainLevel_EMERGENCY THEN UrgencyLevel_EMERGENCY
    ELSE IF data.pain_level = PainLevel_SEVERE THEN UrgencyLevel_HIGH
    ELSE IF data.pain_level = PainLevel_MODERATE THEN UrgencyLevel_MEDIUM
    ELSE UrgencyLevel_LOW

emergency_keywords ==
    <<"can't breathe", "difficulty breathing", "swelling in throat",
      "severe bleeding", "won't stop bleeding", "facial swelling",
      "fever", "infection", "abscess", "trauma", "accident",
      "knocked out", "allergic reaction">>

SEVERE_PAIN_MESSAGE ==
    "I understand you're in severe pain. Let me connect you immediately with our emergency dental line."

EMERGENCY_CONDITION_MESSAGE ==
    "This sounds like it needs immediate attention. I'm connecting you with our emergency dental team right now."

\* some keyword of the list is a substring of the lower-cased utterance
KeywordIn(user_lower) ==
    \E k \in 1..Len(emergency_keywords) : Contains(Chars(emergency_keywords[k]), user_lower)

\* the check with the keyword scan before the pain rule
_check_escalation_conditions_KeywordFirst(user_input, qualification_data) ==
    LET user_lower == lower(Chars(user_input)) IN
    IF KeywordIn(user_lower)
    THEN [escalate |-> TRUE, reason |-> "emergency_condition",
          message |-> EMERGENCY_CONDITION_MESSAGE]
    ELSE IF qualification_data.pain_level = PainLevel_EMERGENCY
    THEN [escalate |-> TRUE, reason |-> "severe_pain", message |-> SEVERE_PAIN_MESSAGE]
    ELSE [escalate |-> FALSE]

\* the check with the keyword scan on the utterance as spoken, not lower-cased
_check_escalation_conditions_CaseSensitive(user_input, qualification_data) ==
    IF qualification_data.pain_level = PainLevel_EMERGENCY
    THEN [escalate |-> TRUE, reason |-> "severe_pain", message |-> SEVERE_PAIN_MESSAGE]
    ELSE IF KeywordIn(Chars(user_input))
    THEN [escalate |-> TRUE, reason |-> "emergency_condition",
          message |-> EMERGENCY_CONDITION_MESSAGE]
    ELSE [escalate |-> FALSE]

\* the check that also escalates on what the session has accumulated
\* (QualificationData.requires_escalation)
_check_escalation_conditions_Sticky(user_input, qualification_data) ==
    LET user_lower == lower(Chars(user_input)) IN
    IF qualification_data.pain_level = PainLevel_EMERGENCY
    THEN [escalate |-> TRUE, reason |-> "severe_pain", message |-> SEVERE_PAIN_MESSAGE]
    ELSE IF KeywordIn(user_lower) \/ requires_escalation(qualification_data)
    THEN [escalate |-> TRUE, reason |-> "emergency_condition",
          message |-> EMERGENCY_CONDITION_MESSAGE]
    ELSE [escalate |-> FALSE]

_check_escalation_conditions(user_input, qualification_data) ==
    LET user_lower == lower(Chars(user_input)) IN
    IF qualification_data.pain_level = PainLevel_EMERGENCY
    THEN [escalate |-> TRUE, reason |-> "severe_pain", message |-> SEVERE_PAIN_MESSAGE]
    ELSE IF KeywordIn(user_lower)
    THEN [escalate |-> TRUE, reason |-> "emergency_condition",
          message |-> EMERGENCY_CONDITION_MESSAGE]
    ELSE [escalate |-> FALSE]

_identify_missing_data(qualification_data) ==
    (IF Falsy(qualification_data.chief_complaint) THEN <<"chief_complaint">> ELSE <<>>)
    \o (IF Falsy(qualification_data.pain_level) THEN <<"pain_level">> ELSE <<>>)
    \o (IF Falsy(qualification_data.insurance_provider)
        THEN <<"insurance_provider">> ELSE <<>>)
    \o (IF Falsy(qualification_data.preferred_appointment_time)
        THEN <<"preferred_appointment_time">> ELSE <<>>)

\* the loop with list values appended to the list the field holds
RECURSIVE ApplyItems_Append(_, _)
ApplyItems_Append(current_data, items) ==
    IF items = <<>> THEN [data |-> current_data, raised |-> FALSE]
    ELSE LET key == Head(items).key
             value == Head(items).value
         IN IF Truthy(key, value) /\ key \in (DOMAIN current_data) \cup NonFieldAttrs
            THEN IF key = "pain_level"
                 THEN ApplyItems_Append(
                          [current_data EXCEPT !.pain_level = _normalize_pain_level(value)],
                          Tail(items))
                 ELSE IF key \in ListFields
                 THEN ApplyItems_Append([current_data EXCEPT ![key] = @ \o value],
                                        Tail(items))
                 ELSE IF key \in DOMAIN current_data
                 THEN ApplyItems_Append([current_data EXCEPT ![key] = value], Tail(items))
                 ELSE [data |-> current_data, raised |-> TRUE]
            ELSE ApplyItems_Append(current_data, Tail(items))

\* the loop without the test of the value: an empty value is assigned too
RECURSIVE ApplyItems_AssignEmpty(_, _)
ApplyItems_AssignEmpty(current_data, items) ==
    IF items = <<>> THEN [data |-> current_data, raised |-> FALSE]
    ELSE LET key == Head(items).key
             value == Head(items).value
         IN IF key \in (DOMAIN current_data) \cup NonFieldAttrs
            THEN IF key = "pain_level"
                 THEN ApplyItems_AssignEmpty(
                          [current_data EXCEPT !.pain_level = _normalize_pain_level(value)],
                          Tail(items))
                 ELSE IF key \in DOMAIN current_data
                 THEN ApplyItems_AssignEmpty([current_data EXCEPT ![key] = value],
                                             Tail(items))
                 ELSE [data |-> current_data, raised |-> TRUE]
            ELSE ApplyItems_AssignEmpty(current_data, Tail(items))

\* for key, value in extracted.items(): ... (lines 199-205); raised is TRUE when
\* setattr raised, with the fields assigned before it kept (the object is
\* changed in place)
RECURSIVE ApplyItems(_, _)
ApplyItems(current_data, items) ==
    IF items = <<>> THEN [data |-> current_data, raised |-> FALSE]
    ELSE LET key == Head(items).key
             value == Head(items).value
         IN IF Truthy(key, value) /\ key \in (DOMAIN current_data) \cup NonFieldAttrs
            THEN IF key = "pain_level"
                 THEN ApplyItems([current_data EXCEPT !.pain_level = _normalize_pain_level(value)],
                                 Tail(items))
                 ELSE IF key \in DOMAIN current_data
                 THEN ApplyItems([current_data EXCEPT ![key] = value], Tail(items))
                 ELSE [data |-> current_data, raised |-> TRUE]
            ELSE ApplyItems(current_data, Tail(items))

\* The object current_data refers to after _extract_qualification_data has
\* returned it, given what the model call did: it raised ("raise"), returned
\* text that is not JSON ("text"), JSON that is no object ("list"), or an
\* object with the given items in order ("dict").
_extract_qualification_data(current_data, response) ==
    IF response.kind # "dict" THEN current_data
    ELSE LET applied == ApplyItems(current_data, response.items)
         IN IF applied.raised THEN applied.data
            ELSE [applied.data EXCEPT !.urgency = _calculate_urgency(applied.data)]

TurnLimit == 10

SCHEDULING_MESSAGE ==
    "Thank you for all that information. Based on what you've shared, I'd like to schedule you for an appointment. Let me connect you with our scheduling team."

FOLLOW_UP_MESSAGE ==
    "Thank you for your time. I'll have one of our team members follow up with you to discuss your dental needs in more detail."

FALLBACK_MESSAGE ==
    "Let me connect you with one of our team members who can better assist you."

TECHNICAL_ERROR_MESSAGE ==
    "I'm experiencing technical difficulties. Let me connect you with a team member."

\* a conclusion test that knows no turn limit
ShouldConclude_NoLimit(qualification_data, turn_count) ==
    _identify_missing_data(qualification_data) = <<>>

\* the conclusion test with the turn limit off by one
ShouldConclude_OffByOne(qualification_data, turn_count) ==
    turn_count > TurnLimit \/ _identify_missing_data(qualification_data) = <<>>

\* _generate_ai_response, line 300: the conversation should conclude
ShouldConclude(qualification_data, turn_count) ==
    turn_count >= TurnLimit \/ _identify_missing_data(qualification_data) = <<>>

\* a conclusion that schedules as soon as the complaint is known
Conclusion_ComplaintOnly(qualification_data) ==
    IF ~Falsy(qualification_data.chief_complaint)
    THEN [message |-> SCHEDULING_MESSAGE, complete |-> TRUE, appointment_scheduled |-> TRUE]
    ELSE [message |-> FOLLOW_UP_MESSAGE, complete |-> TRUE, appointment_scheduled |-> FALSE]

\* _generate_ai_response, lines 302-313: the fixed conclusion
Conclusion(qualification_data) ==
    IF ~Falsy(qualification_data.chief_complaint) /\ ~Falsy(qualification_data.pain_level)
    THEN [message |-> SCHEDULING_MESSAGE, complete |-> TRUE, appointment_scheduled |-> TRUE]
    ELSE [message |-> FOLLOW_UP_MESSAGE, complete |-> TRUE, appointment_scheduled |-> FALSE]

\* the fallback of line 344 without the end of the conversation
Question_FallbackContinues(response) ==
    IF response.kind = "ok"
    THEN [message |-> response.text, complete |-> FALSE]
    ELSE [message |-> FALLBACK_MESSAGE, complete |-> FALSE, appointment_scheduled |-> FALSE]

\* _generate_ai_response, lines 327-348: what it returns once its model call
\* has returned the text of a question ("ok") or raised ("raise")
Question(response) ==
    IF response.kind = "ok"
    THEN [message |-> response.text, complete |-> FALSE]
    ELSE [message |-> FALLBACK_MESSAGE, complete |-> TRUE, appointment_scheduled |-> FALSE]

\* _generate_ai_response, lines 286-348: the missing fields it computed, the
\* number of model calls it made and what it returned, given what its model
\* call does when it is made
_generate_ai_response(qualification_data, turn_count, response) ==
    [missing_data |-> _identify_missing_data(qualification_data),
     model_calls |-> IF ShouldConclude(qualification_data, turn_count) THEN 0 ELSE 1,
     result |-> IF ShouldConclude(qualification_data, turn_count)
                THEN Conclusion(qualification_data)
                ELSE Question(response)]

\* dict.get(key, default)
Get(d, key, default) == IF key \in DOMAIN d THEN d[key] ELSE default

\* a turn that is always recorded as the caller's
ConversationTurn_AllUser(speaker, message) == [speaker |-> "user", message |-> message]

\* ConversationTurn(speaker=..., message=...), models.py lines 117-129
ConversationTurn(speaker, message) == [speaker |-> speaker, message |-> message]

\* a handler that lets the exception go on to the caller
OnException_Reraise ==
    [raised |-> TRUE, result |-> [escalate |-> FALSE]]

\* process_conversation_turn, lines 158-164: the handler of an exception that
\* escaped a step
OnException ==
    [raised |-> FALSE,
     result |-> [escalate |-> TRUE, escalation_reason |-> "technical_error",
                 response |-> TECHNICAL_ERROR_MESSAGE]]

\* the turn without the early return of line 120
AfterExtraction_NoReturn(user_speech, extracted_data) == [generate |-> TRUE]

\* a check that looks at the utterance only, not at the extracted data
AfterExtraction_KeywordOnly(user_speech, extracted_data) ==
    LET escalation_check == _check_escalation_conditions(user_speech, QualificationData)
    IN IF escalation_check.escalate
       THEN [generate |-> FALSE,
             result |-> [escalate |-> TRUE,
                         escalation_reason |-> escalation_check.reason,
                         response |-> escalation_check.message]]
       ELSE [generate |-> TRUE]

\* process_conversation_turn, lines 114-125: the escalation check on the
\* extracted data and what follows from it: the escalate result, or a call of
\* _generate_ai_response
AfterExtraction(user_speech, extracted_data) ==
    LET escalation_check == _check_escalation_conditions(user_speech, extracted_data)
    IN IF escalation_check.escalate
       THEN [generate |-> FALSE,
             result |-> [escalate |-> TRUE,
                         escalation_reason |-> escalation_check.reason,
                         response |-> escalation_check.message]]
       ELSE [generate |-> TRUE]

\* the end of the turn without the append of line 139
TurnResult_NoAppend(session_context, ai_response) ==
    [session |-> session_context,
     result |->
         IF Get(ai_response, "complete", FALSE)
         THEN [complete |-> TRUE,
               response |-> ai_response.message,
               qualification_data |-> session_context.qualification_data,
               appointment_scheduled |-> Get(ai_response, "appointment_scheduled", FALSE)]
         ELSE [response |-> ai_response.message,
               qualification_data |-> session_context.qualification_data]]

\* the end of the turn with the history cut to its last 6 turns, the window
\* the prompt of _generate_ai_response uses
TurnResult_KeepLast6(session_context, ai_response) ==
    LET ai_turn == ConversationTurn("assistant", ai_response.message)
        history == Append(session_context.conversation_history, ai_turn)
        session == [session_context EXCEPT
                       !.conversation_history =
                           IF Len(history) > 6
                           THEN SubSeq(history, Len(history) - 5, Len(history))
                           ELSE history]
    IN [session |-> session,
        result |->
            IF Get(ai_response, "complete", FALSE)
            THEN [complete |-> TRUE,
                  response |-> ai_response.message,
                  qualification_data |-> session.qualification_data,
                  appointment_scheduled |-> Get(ai_response, "appointment_scheduled", FALSE)]
            ELSE [response |-> ai_response.message,
                  qualification_data |-> session.qualification_data]]

\* process_conversation_turn, lines 134-156: the session with the assistant
\* turn appended, and the result returned
TurnResult(session_context, ai_response) ==
    LET ai_turn == ConversationTurn("assistant", ai_response.message)
        session == [session_context EXCEPT
                       !.conversation_history = Append(@, ai_turn)]
    IN [session |-> session,
        result |->
            IF Get(ai_response, "complete", FALSE)
            THEN [complete |-> TRUE,
                  response |-> ai_response.message,
                  qualification_data |-> session.qualification_data,
                  appointment_scheduled |-> Get(ai_response, "appointment_scheduled", FALSE)]
            ELSE [response |-> ai_response.message,
                  qualification_data |-> session.qualification_data]]

\* ------------------------------------------------------------------ state

Leads == {"lead_1", "lead_2"}
Tasks == {"task_1", "task_2"}
ObjIds == {"obj_1", "obj_2", "obj_3", "obj_4"}

VARIABLES
    active_sessions,  \* AIService.active_sessions: lead_id -> session object, or None
    heap,             \* the session objects alive: object -> its dict
    tasks,            \* the process_conversation_turn coroutines
    ret,              \* what the operation that finished last returned
    dnc_set,          \* DNCService.dnc_set: the normalized numbers not to call
    leads,            \* DatabaseService.leads: lead id -> the lead stored
    background_tasks, \* the BackgroundTasks of the last webhook request
    call_sessions     \* DatabaseService.call_sessions: session id -> the call session

\* the state of the services around the conversation
service_vars == <<dnc_set, leads, background_tasks, call_sessions>>

vars == <<active_sessions, heap, tasks, ret, dnc_set, leads, background_tasks, call_sessions>>

\* DNCService.__init__ and DatabaseService.__init__: nothing is listed or stored
InitServices ==
    /\ dnc_set = {}
    /\ leads = [l \in {} |-> None]
    /\ background_tasks = <<>>
    /\ call_sessions = [s \in {} |-> None]

\* the dict a turn makes for a lead without a session (lines 92-96).
\* escalations is a history variable, not a key of the dict: the number of
\* turns that appended their user turn to this dict and returned escalate.
NewSession ==
    [conversation_history |-> <<>>,
     qualification_data |-> QualificationData,
     turn_count |-> 0,
     escalations |-> 0]

IdleTask ==
    [pc |-> "idle", lead_id |-> None, user_speech |-> None, session_context |-> None,
     prior_turn_count |-> 0, trace |-> <<>>]

NoRet == [op |-> "none"]

\* the objects some reference reaches: the rest is garbage
Live(sessions, tks) ==
    {sessions[l] : l \in Leads} \cup {tks[t].session_context : t \in Tasks}

Collect(h, sessions, tks) ==
    [o \in (DOMAIN h) \cap Live(sessions, tks) |-> h[o]]

Init ==
    /\ active_sessions = [l \in Leads |-> None]
    /\ heap = [o \in {} |-> NewSession]
    /\ tasks = [t \in Tasks |-> IdleTask]
    /\ InitServices
    /\ ret = NoRet

AllIdle == \A t \in Tasks : tasks[t].pc = "idle"

\* the idle task that runs the next coroutine: the first one
FirstIdle(t) ==
    /\ tasks[t].pc = "idle"
    /\ t = "task_2" => tasks["task_1"].pc # "idle"

\* the history variable of the session at the return of a turn: a turn that
\* does not reach line 142 has returned at line 120
Escalated(session, store) ==
    IF store THEN session ELSE [session EXCEPT !.escalations = @ + 1]

\* the session another turn stored while this one was running (the entry
\* line 142 overwrites), if there is one
Replaced(lead_id, ctx, store) ==
    IF store /\ active_sessions[lead_id] \notin {None, ctx}
    THEN <<heap[active_sessions[lead_id]]>>
    ELSE <<>>

\* a return that adds its turn to the session another turn stored meanwhile
Return_Merge(t, session, result, trace, store) ==
    LET ctx == tasks[t].session_context
        lead_id == tasks[t].lead_id
        replaced == Replaced(lead_id, ctx, store)
        merged == IF replaced = <<>> THEN session
                  ELSE [session EXCEPT
                           !.conversation_history =
                               replaced[1].conversation_history \o @,
                           !.turn_count = replaced[1].turn_count + @]
        sessions == IF store THEN [active_sessions EXCEPT ![lead_id] = ctx]
                    ELSE active_sessions
        tks == [tasks EXCEPT ![t] = IdleTask]
    IN /\ active_sessions' = sessions
       /\ tasks' = tks
       /\ heap' = Collect([heap EXCEPT ![ctx] = Escalated(merged, store)], sessions, tks)
       /\ ret' = [op |-> "turn", lead_id |-> lead_id,
                  user_speech |-> tasks[t].user_speech,
                  raised |-> FALSE, result |-> result, trace |-> trace,
                  session_context |-> Escalated(merged, store),
                  prior_turn_count |-> tasks[t].prior_turn_count,
                  replaced |-> replaced]
       /\ UNCHANGED service_vars

\* process_conversation_turn returns result: the task ends, its references go
\* away, and with `store` line 142 has put the session into active_sessions
Return(t, session, result, trace, store) ==
    LET ctx == tasks[t].session_context
        lead_id == tasks[t].lead_id
        sessions == IF store THEN [active_sessions EXCEPT ![lead_id] = ctx]
                    ELSE active_sessions
        tks == [tasks EXCEPT ![t] = IdleTask]
    IN /\ active_sessions' = sessions
       /\ tasks' = tks
       /\ heap' = Collect([heap EXCEPT ![ctx] = Escalated(session, store)], sessions, tks)
       /\ ret' = [op |-> "turn", lead_id |-> lead_id,
                  user_speech |-> tasks[t].user_speech,
                  raised |-> FALSE, result |-> result, trace |-> trace,
                  session_context |-> Escalated(session, store),
                  prior_turn_count |-> tasks[t].prior_turn_count,
                  replaced |-> Replaced(lead_id, ctx, store)]
       /\ UNCHANGED service_vars

\* process_conversation_turn, lines 90-111 and 166-186: from the call to the
\* await of the extraction's model call.  ConversationTurn (line 99) rejects a
\* user_speech that is no string: the error reaches the handler of line 158.
StartTurn(t, lead_id, user_speech, limit) ==
    /\ FirstIdle(t)
    /\ LET stored == active_sessions[lead_id]
           ctx == IF stored # None THEN stored
                  ELSE CHOOSE o \in ObjIds \ DOMAIN heap : TRUE
           session_context == IF stored # None THEN heap[stored] ELSE NewSession
       IN /\ session_context.turn_count < limit
          /\ IF user_speech = None
             THEN /\ ret' = [op |-> "turn", lead_id |-> lead_id,
                             user_speech |-> user_speech,
                             raised |-> OnException.raised,
                             result |-> OnException.result,
                             trace |-> <<>>,
                             session_context |-> session_context,
                             prior_turn_count |-> session_context.turn_count,
                             replaced |-> <<>>]
                  /\ UNCHANGED <<active_sessions, heap, tasks, service_vars>>
             ELSE /\ heap' = (ctx :> [session_context EXCEPT
                                 !.conversation_history =
                                     Append(@, ConversationTurn("user", user_speech)),
                                 !.turn_count = @ + 1]) @@ heap
                  /\ tasks' = [tasks EXCEPT ![t] =
                                 [pc |-> "extract", lead_id |-> lead_id,
                                  user_speech |-> user_speech,
                                  session_context |-> ctx,
                                  prior_turn_count |-> session_context.turn_count,
                                  trace |-> <<"_extract_qualification_data">>]]
                  /\ ret' = NoRet
                  /\ UNCHANGED <<active_sessions, service_vars>>

\* process_conversation_turn, lines 186-214, 112-132 and 286-327: the
\* extraction's model call is over; the extracted fields are applied, the
\* escalation check runs and, unless it returns, _generate_ai_response runs up
\* to its fixed conclusion (then lines 134-156) or to the await of its model call
ExtractReturns(t, response) ==
    /\ tasks[t].pc = "extract"
    /\ LET ctx == tasks[t].session_context
           extracted_data ==
               _extract_qualification_data(heap[ctx].qualification_data, response)
           session_context == [heap[ctx] EXCEPT !.qualification_data = extracted_data]
           after == AfterExtraction(tasks[t].user_speech, extracted_data)
           checked == Append(tasks[t].trace, "_check_escalation_conditions")
       IN IF ~after.generate
          THEN Return(t, session_context, after.result, checked, FALSE)
          ELSE IF ShouldConclude(extracted_data, session_context.turn_count)
          THEN LET turn == TurnResult(session_context, Conclusion(extracted_data))
               IN Return(t, turn.session, turn.result,
                         Append(checked, "_generate_ai_response"), TRUE)
          ELSE /\ heap' = [heap EXCEPT ![ctx] = session_context]
               /\ tasks' = [tasks EXCEPT ![t].pc = "generate",
                                         ![t].trace = checked \o
                                             <<"_generate_ai_response",
                                               "chat.completions.create">>]
               /\ ret' = NoRet
               /\ UNCHANGED <<active_sessions, service_vars>>

\* process_conversation_turn, lines 327-348 and 134-156: the model call of
\* _generate_ai_response is over
GenerateReturns(t, response) ==
    /\ tasks[t].pc = "generate"
    /\ LET turn == TurnResult(heap[tasks[t].session_context], Question(response))
           how == IF response.kind = "ok" THEN "question returned" ELSE "question raised"
       IN Return(t, turn.session, turn.result, Append(tasks[t].trace, how), TRUE)

FIRST_QUESTION_FALLBACK ==
    "What brings you to Premier Dental today? Are you experiencing any dental pain or discomfort?"

\* a first question whose failure goes on to the caller
generate_first_question_Reraise(lead_id, response) ==
    /\ ret' = [op |-> "generate_first_question", lead_id |-> lead_id,
               response |-> response,
               raised |-> response.kind # "ok",
               result |-> IF response.kind = "ok" THEN strip(Chars(response.text))
                          ELSE <<>>]
    /\ UNCHANGED <<active_sessions, heap, tasks, service_vars>>

\* generate_first_question, lines 68-85: the text of the model call without
\* the blanks around it, or the fixed line when the call raised; result is the
\* string returned, character by character
generate_first_question(lead_id, response) ==
    /\ ret' = [op |-> "generate_first_question", lead_id |-> lead_id,
               response |-> response,
               raised |-> FALSE,
               result |-> IF response.kind = "ok" THEN strip(Chars(response.text))
                          ELSE Chars(FIRST_QUESTION_FALLBACK)]
    /\ UNCHANGED <<active_sessions, heap, tasks, service_vars>>

\* a cleanup that forgets every session
cleanup_session_All(lead_id) ==
    /\ active_sessions' = [l \in Leads |-> None]
    /\ heap' = Collect(heap, active_sessions', tasks)
    /\ ret' = [op |-> "cleanup", lead_id |-> lead_id, raised |-> FALSE,
               deleted |-> active_sessions[lead_id] # None]
    /\ UNCHANGED <<tasks, service_vars>>

\* a cleanup without the test of line 367: del raises KeyError for a lead
\* that has no session
cleanup_session_NoGuard(lead_id) ==
    /\ active_sessions' = [active_sessions EXCEPT ![lead_id] = None]
    /\ heap' = Collect(heap, active_sessions', tasks)
    /\ ret' = [op |-> "cleanup", lead_id |-> lead_id,
               raised |-> active_sessions[lead_id] = None,
               deleted |-> active_sessions[lead_id] # None]
    /\ UNCHANGED <<tasks, service_vars>>

\* cleanup_session, lines 365-368: the entry of the lead is deleted if there
\* is one (deleted tells which branch ran)
cleanup_session(lead_id) ==
    /\ IF active_sessions[lead_id] # None
       THEN active_sessions' = [active_sessions EXCEPT ![lead_id] = None]
       ELSE UNCHANGED active_sessions
    /\ heap' = Collect(heap, active_sessions', tasks)
    /\ ret' = [op |-> "cleanup", lead_id |-> lead_id, raised |-> FALSE,
               deleted |-> active_sessions[lead_id] # None]
    /\ UNCHANGED <<tasks, service_vars>>

\* a summary that reports the number of turns as the length of the history
get_session_summary_TurnsAsLength(lead_id) ==
    /\ ret' = [op |-> "summary", lead_id |-> lead_id,
               result |->
                   IF active_sessions[lead_id] = None THEN <<>>
                   ELSE LET session == heap[active_sessions[lead_id]]
                        IN <<[qualification_data |-> session.qualification_data,
                              conversation_length |-> session.turn_count,
                              turn_count |-> session.turn_count]>>]
    /\ UNCHANGED <<active_sessions, heap, tasks, service_vars>>

\* get_session_summary, lines 370-380: None (here <<>>) without a session,
\* else the dict of the summary (here <<dict>>)
get_session_summary(lead_id) ==
    /\ ret' = [op |-> "summary", lead_id |-> lead_id,
               result |->
                   IF active_sessions[lead_id] = None THEN <<>>
                   ELSE LET session == heap[active_sessions[lead_id]]
                        IN <<[qualification_data |-> session.qualification_data,
                              conversation_length |-> Len(session.conversation_history),
                              turn_count |-> session.turn_count]>>]
    /\ UNCHANGED <<active_sessions, heap, tasks, service_vars>>

\* ------------------------------------------------------------------ inputs

MaxTurns == 4

\* user_speech: two utterances, one of them with an emergency keyword, and
\* a value that is no string
Speech == {"I'm fine now", "I have a FEVER", None}

Item(key, value) == [key |-> key, value |-> value]

\* what the extraction's model call does
Extractions ==
    <<[kind |-> "raise", items |-> <<>>],
      [kind |-> "text", items |-> <<>>],
      [kind |-> "list", items |-> <<>>],
      [kind |-> "dict", items |-> <<>>],
      [kind |-> "dict", items |-> <<Item("chief_complaint", "toothache"),
                                    Item("pain_level", "5")>>],
      [kind |-> "dict", items |-> <<Item("pain_level", "9")>>],
      [kind |-> "dict", items |-> <<Item("pain_level", "a lot")>>],
      [kind |-> "dict", items |-> <<Item("insurance_provider", "Delta Dental"),
                                    Item("preferred_appointment_time", "Monday morning")>>],
      [kind |-> "dict", items |-> <<Item("emergency_indicators", <<"swelling">>)>>],
      [kind |-> "dict", items |-> <<Item("urgency", "high")>>],
      [kind |-> "dict", items |-> <<Item("pain_level", "9"),
                                    Item("requires_escalation", "yes")>>],
      [kind |-> "dict", items |-> <<Item("chief_complaint", ""),
                                    Item("foo", "bar")>>],
      [kind |-> "dict", items |-> <<Item("emergency_indicators", <<"fever">>)>>]>>

\* what the model call of _generate_ai_response does
Questions ==
    {[kind |-> "ok", text |-> "Can you tell me more?"],
     [kind |-> "raise", text |-> ""]}

\* what the model call of generate_first_question does
FirstQuestions ==
    {[kind |-> "ok", text |-> " What brings you in today? "],
     [kind |-> "raise", text |-> ""]}

\* ------------------------------------------------------------------ turns of one lead, one at a time

Next ==
    \/ \E u \in Speech : AllIdle /\ StartTurn("task_1", "lead_1", u, MaxTurns)
    \/ \E i \in 1..Len(Extractions) : ExtractReturns("task_1", Extractions[i])
    \/ \E q \in Questions : GenerateReturns("task_1", q)
    \/ AllIdle /\ cleanup_session("lead_1")
    \/ AllIdle /\ get_session_summary("lead_1")
    \/ \E q \in FirstQuestions : AllIdle /\ generate_first_question("lead_1", q)

Spec == Init /\ [][Next]_vars

\* ------------------------------------------------------------------ a long conversation of one lead

MaxLongTurns == 11

LongSpeech == {"I'm fine now", "I have a FEVER"}

\* the extraction finds nothing, the complaint and a moderate pain, or an
\* emergency pain
LongExtractions == {4, 5, 6}

\* the question's model call answers
LongQuestions == {[kind |-> "ok", text |-> "Can you tell me more?"]}

NextLong ==
    \/ \E u \in LongSpeech : AllIdle /\ StartTurn("task_1", "lead_1", u, MaxLongTurns)
    \/ \E i \in LongExtractions : ExtractReturns("task_1", Extractions[i])
    \/ \E q \in LongQuestions : GenerateReturns("task_1", q)

SpecLong == Init /\ [][NextLong]_vars

\* ------------------------------------------------------------------ turns of two leads, two at a time

MaxConcTurns == 1

\* what the caller says in the turn a coroutine runs: a different utterance in
\* each of two overlapping turns
ConcSpeech == [t \in Tasks |-> IF t = "task_1" THEN "I'm fine now" ELSE "My tooth hurts"]

\* the extraction finds nothing, the complaint and a moderate pain, or an
\* emergency pain
ConcExtractions == {4, 5, 6}

\* the coroutines run on one event loop: a step is the code of one coroutine
\* between two awaits of a model call, or a whole synchronous method
NextConc ==
    \/ \E t \in Tasks, l \in Leads : StartTurn(t, l, ConcSpeech[t], MaxConcTurns)
    \/ \E t \in Tasks, i \in ConcExtractions : ExtractReturns(t, Extractions[i])
    \/ \E t \in Tasks, q \in LongQuestions : GenerateReturns(t, q)
    \/ \E l \in Leads : cleanup_session(l)
    \/ \E l \in Leads : get_session_summary(l)

SpecConc == Init /\ [][NextConc]_vars

\* ------------------------------------------------------------------ turns of one lead, two at a time

MaxOverlapTurns == 4

\* two coroutines run turns of the same lead
NextOverlap ==
    \/ \E t \in Tasks : StartTurn(t, "lead_1", ConcSpeech[t], MaxOverlapTurns)
    \/ \E t \in Tasks, i \in ConcExtractions : ExtractReturns(t, Extractions[i])
    \/ \E t \in Tasks, q \in LongQuestions : GenerateReturns(t, q)

SpecOverlap == Init /\ [][NextOverlap]_vars

\* ------------------------------------------------------------------ the escalation check, applied to given arguments

Utterances ==
    {"I'm fine now", "I can't breathe and there's facial swelling", "I have a FEVER",
     "My tooth hurts"}

\* the QualificationData values the check is applied to
CheckData ==
    {[QualificationData EXCEPT !.chief_complaint = c, !.pain_level = p,
                               !.urgency = u, !.emergency_indicators = e] :
        c \in {None, "toothache", "Facial Swelling"},
        p \in PainLevel \cup {None},
        u \in {UrgencyLevel_LOW, UrgencyLevel_EMERGENCY},
        e \in {<<>>, <<"swelling">>}}

InitCheck ==
    /\ active_sessions = [l \in Leads |-> None]
    /\ heap = [o \in {} |-> NewSession]
    /\ tasks = [t \in Tasks |-> IdleTask]
    /\ InitServices
    /\ ret \in {[op |-> "arguments", user_input |-> u, qualification_data |-> d] :
                   u \in Utterances, d \in CheckData}

CheckEscalation ==
    /\ ret.op = "arguments"
    /\ ret' = [op |-> "_check_escalation_conditions",
               user_input |-> ret.user_input,
               qualification_data |-> ret.qualification_data,
               result |-> _check_escalation_conditions(ret.user_input,
                                                       ret.qualification_data)]
    /\ UNCHANGED <<active_sessions, heap, tasks, service_vars>>

\* one call of _calculate_urgency on the data
CalculateUrgency ==
    /\ ret.op = "arguments"
    /\ ret' = [op |-> "_calculate_urgency",
               data |-> ret.qualification_data,
               result |-> _calculate_urgency(ret.qualification_data)]
    /\ UNCHANGED <<active_sessions, heap, tasks, service_vars>>

NextCheck == CheckEscalation \/ CalculateUrgency

SpecCheck == InitCheck /\ [][NextCheck]_vars

\* ------------------------------------------------------------------ properties

Range(s) == {s[i] : i \in 1..Len(s)}

\* the three results of process_conversation_turn
IsEscalate(r) ==
    DOMAIN r = {"escalate", "escalation_reason", "response"} /\ r.escalate

IsComplete(r) ==
    /\ DOMAIN r = {"complete", "response", "qualification_data", "appointment_scheduled"}
    /\ r.complete

IsContinue(r) == DOMAIN r = {"response", "qualification_data"}

\* a turn has just returned, and its escalation check ran
Checked == ret.op = "turn" /\ "_check_escalation_conditions" \in Range(ret.trace)

\* the session active_sessions holds for the lead of the turn that just returned
Stored == heap[active_sessions[ret.lead_id]]

\* C1: a turn whose escalation check returns escalate=true returns the escalate
\* result with the check's reason and message, and _generate_ai_response was not
\* invoked during that turn; a turn waiting for the question's model call is
\* one whose check did not escalate.
C1_EscalationSkipsGenerator ==
    /\ Checked =>
         LET escalation_check ==
                 _check_escalation_conditions(ret.user_speech,
                                              ret.session_context.qualification_data)
         IN escalation_check.escalate =>
              /\ IsEscalate(ret.result)
              /\ ret.result.escalation_reason = escalation_check.reason
              /\ ret.result.response = escalation_check.message
              /\ "_generate_ai_response" \notin Range(ret.trace)
    /\ \A t \in Tasks :
         tasks[t].pc = "generate" =>
           ~_check_escalation_conditions(
                tasks[t].user_speech,
                heap[tasks[t].session_context].qualification_data).escalate

C1_Witness ==
    /\ Checked
    /\ IsEscalate(ret.result)
    /\ ret.result.escalation_reason = "emergency_condition"
    /\ ret.prior_turn_count > 0

\* C2: process_conversation_turn never raises: every turn returns one of the
\* three results, and a turn whose step failed with an error the step does not
\* absorb (ConversationTurn rejecting the utterance) returns the
\* technical_error escalation with the fixed message.
C2_NeverRaises ==
    ret.op = "turn" =>
      /\ ~ret.raised
      /\ IsEscalate(ret.result) \/ IsComplete(ret.result) \/ IsContinue(ret.result)
      /\ ret.user_speech = None =>
           ret.result = [escalate |-> TRUE, escalation_reason |-> "technical_error",
                         response |-> TECHNICAL_ERROR_MESSAGE]

C2_Witness ==
    /\ ret.op = "turn"
    /\ ret.user_speech = None
    /\ ret.prior_turn_count > 0
    /\ ret.result.escalation_reason = "technical_error"

\* C3: with pain_level EMERGENCY the check escalates with reason "severe_pain"
\* for every utterance, with or without an emergency keyword.
C3_SeverePainFirst ==
    (ret.op = "_check_escalation_conditions"
       /\ ret.qualification_data.pain_level = PainLevel_EMERGENCY) =>
      /\ ret.result.escalate
      /\ ret.result.reason = "severe_pain"
      /\ ret.result.message = SEVERE_PAIN_MESSAGE

C3_Witness ==
    /\ ret.op = "_check_escalation_conditions"
    /\ ret.qualification_data.pain_level = PainLevel_EMERGENCY
    /\ ret.user_input = "I can't breathe and there's facial swelling"
    /\ ret.result.reason = "severe_pain"

\* C4 as claimed: for an utterance with an emergency keyword the check escalates
\* with reason "emergency_condition" whatever the qualification data hold.
C4_KeywordReasonAlways ==
    (ret.op = "_check_escalation_conditions"
       /\ KeywordIn(lower(Chars(ret.user_input)))) =>
      /\ ret.result.escalate
      /\ ret.result.reason = "emergency_condition"

\* C4, amended: for an utterance with an emergency keyword the check escalates
\* whatever the qualification data hold; the reason is "emergency_condition"
\* unless pain_level is EMERGENCY, and then it is "severe_pain".
C4_KeywordEscalates ==
    (ret.op = "_check_escalation_conditions"
       /\ KeywordIn(lower(Chars(ret.user_input)))) =>
      /\ ret.result.escalate
      /\ ret.result.reason =
           IF ret.qualification_data.pain_level = PainLevel_EMERGENCY
           THEN "severe_pain" ELSE "emergency_condition"

C4_Witness ==
    /\ ret.op = "_check_escalation_conditions"
    /\ ret.user_input = "I have a FEVER"
    /\ ret.qualification_data.pain_level = PainLevel_SEVERE
    /\ ret.qualification_data.emergency_indicators # <<>>
    /\ ret.result.reason = "emergency_condition"

\* C5: a turn whose utterance has no emergency keyword and whose pain_level
\* after the extraction is not EMERGENCY does not escalate, whatever the
\* session's earlier turns, chief_complaint and emergency_indicators are.
C5_NoMemory ==
    (/\ ret.op = "turn"
     /\ ret.user_speech # None
     /\ ~KeywordIn(lower(Chars(ret.user_speech)))
     /\ ret.session_context.qualification_data.pain_level # PainLevel_EMERGENCY) =>
      "escalate" \notin DOMAIN ret.result

\* a turn that continues although an earlier turn of the session had a keyword
\* and the session holds an emergency indicator
C5_Witness ==
    /\ ret.op = "turn"
    /\ ret.user_speech = "I'm fine now"
    /\ IsContinue(ret.result)
    /\ ConversationTurn("user", "I have a FEVER")
         \in Range(ret.session_context.conversation_history)
    /\ ret.session_context.qualification_data.emergency_indicators # <<>>
    /\ requires_escalation(ret.session_context.qualification_data)

\* C6 as claimed: after a turn with a string utterance has returned,
\* active_sessions holds a session for the lead whose history has the turn's
\* user utterance and whose turn_count counts the turn.
C6_SessionStored ==
    (ret.op = "turn" /\ ret.user_speech # None) =>
      /\ active_sessions[ret.lead_id] # None
      /\ ConversationTurn("user", ret.user_speech) \in Range(Stored.conversation_history)
      /\ Stored.turn_count = ret.prior_turn_count + 1

\* C7 as claimed: every turn of a session whose turn_count has reached 10
\* returns complete=true, with the scheduling template when chief_complaint
\* and pain_level are set and without an appointment when chief_complaint is
\* unset, and with no model call of the Response Generator.
C7_TurnLimitCompletes ==
    (ret.op = "turn" /\ ret.session_context.turn_count >= TurnLimit) =>
      LET data == ret.session_context.qualification_data IN
      /\ IsComplete(ret.result)
      /\ "chat.completions.create" \notin Range(ret.trace)
      /\ (~Falsy(data.chief_complaint) /\ ~Falsy(data.pain_level)) =>
           /\ ret.result.appointment_scheduled
           /\ ret.result.response = SCHEDULING_MESSAGE
      /\ Falsy(data.chief_complaint) => ~ret.result.appointment_scheduled

\* C7, amended: every turn of a session whose turn_count has reached 10 and
\* that does not return an escalate result returns complete=true, with the
\* scheduling template and appointment_scheduled=true when chief_complaint and
\* pain_level are set, with appointment_scheduled=false when chief_complaint
\* is unset, and the Response Generator makes no model call.
C7_TurnLimitCompletesUnlessEscalated ==
    (/\ ret.op = "turn"
     /\ ret.session_context.turn_count >= TurnLimit
     /\ ~IsEscalate(ret.result)) =>
      LET data == ret.session_context.qualification_data IN
      /\ IsComplete(ret.result)
      /\ "_generate_ai_response" \in Range(ret.trace)
      /\ "chat.completions.create" \notin Range(ret.trace)
      /\ (~Falsy(data.chief_complaint) /\ ~Falsy(data.pain_level)) =>
           /\ ret.result.appointment_scheduled
           /\ ret.result.response = SCHEDULING_MESSAGE
      /\ Falsy(data.chief_complaint) => ~ret.result.appointment_scheduled
    /\ \A t \in Tasks :
         tasks[t].pc = "generate" => heap[tasks[t].session_context].turn_count < TurnLimit

\* the turn after the tenth, with complaint and pain known
C7_Witness ==
    /\ ret.op = "turn"
    /\ ret.prior_turn_count = TurnLimit
    /\ IsComplete(ret.result)
    /\ ret.result.appointment_scheduled
    /\ _identify_missing_data(ret.session_context.qualification_data) # <<>>

\* C8 as claimed: once a turn of a lead has returned escalate or complete, the
\* session of that lead does not change while it stays in active_sessions.
C8_TerminalIsFinal ==
    [][(/\ ret.op = "turn"
        /\ IsEscalate(ret.result) \/ IsComplete(ret.result)
        /\ active_sessions[ret.lead_id] # None
        /\ active_sessions'[ret.lead_id] = active_sessions[ret.lead_id]) =>
          heap'[active_sessions[ret.lead_id]] = heap[active_sessions[ret.lead_id]]]_vars

\* C9: every turn returns exactly one of the escalate, complete and continue
\* results, and after a complete or continue result the stored session ends
\* with the assistant turn of the returned response and holds the returned
\* qualification data.
C9_ThreeOutcomes ==
    ret.op = "turn" =>
      /\ IsEscalate(ret.result) \/ IsComplete(ret.result) \/ IsContinue(ret.result)
      /\ (IsComplete(ret.result) \/ IsContinue(ret.result)) =>
           /\ active_sessions[ret.lead_id] # None
           /\ Stored = ret.session_context
           /\ Len(Stored.conversation_history) >= 2
           /\ Stored.conversation_history[Len(Stored.conversation_history)]
                = ConversationTurn("assistant", ret.result.response)
           /\ Stored.conversation_history[Len(Stored.conversation_history) - 1]
                = ConversationTurn("user", ret.user_speech)
           /\ ret.result.qualification_data = Stored.qualification_data

C9_Witness ==
    /\ ret.op = "turn"
    /\ IsComplete(ret.result)
    /\ ret.result.response = FALLBACK_MESSAGE
    /\ ret.prior_turn_count > 0

\* C10 as claimed: in every session, stored or in flight at the end of a turn,
\* urgency is the urgency _calculate_urgency derives from pain_level.
C10_UrgencyDerived ==
    /\ \A o \in DOMAIN heap :
         heap[o].qualification_data.urgency
           = _calculate_urgency(heap[o].qualification_data)
    /\ ret.op = "turn" =>
         ret.session_context.qualification_data.urgency
           = _calculate_urgency(ret.session_context.qualification_data)

\* ------------------------------------------------------------------ the extraction, applied to given arguments

InitExtract ==
    /\ active_sessions = [l \in Leads |-> None]
    /\ heap = [o \in {} |-> NewSession]
    /\ tasks = [t \in Tasks |-> IdleTask]
    /\ InitServices
    /\ ret \in {[op |-> "extract_arguments", current_data |-> d, response |-> i] :
                   d \in CheckData, i \in 1..Len(Extractions)}

\* one call of _extract_qualification_data whose model call does Extractions[i]
ExtractData ==
    /\ ret.op = "extract_arguments"
    /\ ret' = [op |-> "_extract_qualification_data",
               current_data |-> ret.current_data,
               response |-> ret.response,
               result |-> _extract_qualification_data(ret.current_data,
                                                      Extractions[ret.response])]
    /\ UNCHANGED <<active_sessions, heap, tasks, service_vars>>

NextExtract == ExtractData

SpecExtract == InitExtract /\ [][NextExtract]_vars

\* the model call raised, its output was no JSON object, or applying it raised
ExtractionFailed(current_data, response) ==
    \/ response.kind # "dict"
    \/ ApplyItems(current_data, response.items).raised

\* C11 as claimed: when the model call raises, its output is not parseable or
\* applying its output raises at any point, _extract_qualification_data
\* returns a QualificationData equal to its input on every field.
C11_FailSoft ==
    (ret.op = "_extract_qualification_data"
       /\ ExtractionFailed(ret.current_data, Extractions[ret.response])) =>
      ret.result = ret.current_data

\* C12: a turn whose question model call failed returns, without raising, the
\* complete result with the fixed team-member message and no appointment; it
\* is no escalation.
C12_QuestionFailureCompletes ==
    (ret.op = "turn" /\ "question raised" \in Range(ret.trace)) =>
      /\ ~ret.raised
      /\ IsComplete(ret.result)
      /\ ret.result.response = FALLBACK_MESSAGE
      /\ ~ret.result.appointment_scheduled
      /\ "escalate" \notin DOMAIN ret.result

C12_Witness ==
    /\ ret.op = "turn"
    /\ "question raised" \in Range(ret.trace)
    /\ ret.result.response = FALLBACK_MESSAGE
    /\ ~Falsy(ret.session_context.qualification_data.chief_complaint)

\* ------------------------------------------------------------------ the pain normalization, applied to given texts

MaxWords == 2

\* the pieces of the pain texts
PainWords ==
    {"9", "10", "7", "8", "4", "5", "6", "1", "2", "3", "0", "no pain",
     "excruciating", "unbearable", "severe", "moderate", "strong", "significant",
     "mild", "slight", "minor", "none", "no", "nothing", "emergency", "a lot",
     "7 out of 10, not unbearable", "Severe", "bad"}

\* the characters of the text made of the words with a space between them
RECURSIVE Join(_)
Join(words) ==
    IF Len(words) = 1 THEN Chars(words[1])
    ELSE Chars(words[1]) \o <<" ">> \o Join(Tail(words))

InitNormalize ==
    /\ active_sessions = [l \in Leads |-> None]
    /\ heap = [o \in {} |-> NewSession]
    /\ tasks = [t \in Tasks |-> IdleTask]
    /\ InitServices
    /\ \E n \in 1..MaxWords :
         ret \in {[op |-> "pain_input", words |-> w] : w \in [1..n -> PainWords]}

NormalizePain ==
    /\ ret.op = "pain_input"
    /\ ret' = [op |-> "_normalize_pain_level", words |-> ret.words,
               result |-> NormalizePainStr(lower(Join(ret.words)))]
    /\ UNCHANGED <<active_sessions, heap, tasks, service_vars>>

NextNormalize == NormalizePain

SpecNormalize == InitNormalize /\ [][NextNormalize]_vars

\* the lower-cased pain text of the call contains one of the words
PainTextHas(words) == AnyIn(words, lower(Join(ret.words)))

\* C13: a pain text that contains "9" or "10" is normalized to EMERGENCY,
\* whatever other digits and descriptive words it contains.
C13_NineOrTenIsEmergency ==
    (ret.op = "_normalize_pain_level" /\ PainTextHas({"9", "10"})) =>
      ret.result = PainLevel_EMERGENCY

C13_Witness ==
    /\ ret.op = "_normalize_pain_level"
    /\ ret.words = <<"mild", "7 out of 10, not unbearable">>
    /\ ret.result = PainLevel_EMERGENCY

\* the rules of the reference, first match wins
PainRules ==
    <<[words |-> {"9", "10"}, level |-> PainLevel_EMERGENCY],
      [words |-> {"7", "8"}, level |-> PainLevel_SEVERE],
      [words |-> {"4", "5", "6"}, level |-> PainLevel_MODERATE],
      [words |-> {"1", "2", "3"}, level |-> PainLevel_MILD],
      [words |-> {"0", "no pain"}, level |-> PainLevel_NONE],
      [words |-> {"excruciating", "unbearable", "severe"}, level |-> PainLevel_SEVERE],
      [words |-> {"moderate", "strong", "significant"}, level |-> PainLevel_MODERATE],
      [words |-> {"mild", "slight", "minor"}, level |-> PainLevel_MILD],
      [words |-> {"none", "no", "nothing"}, level |-> PainLevel_NONE]>>

\* C29: _normalize_pain_level returns the level of the first rule of the
\* reference of which the lower-cased text contains a word, and unset when
\* no rule matches; so a digit rule wins over every descriptive word.
C29_FirstMatchWins ==
    ret.op = "_normalize_pain_level" =>
      LET matching == {k \in 1..Len(PainRules) : PainTextHas(PainRules[k].words)}
      IN IF matching = {} THEN ret.result = None
         ELSE \E k \in matching :
                /\ \A m \in matching : k <= m
                /\ ret.result = PainRules[k].level

C29_Witness ==
    /\ ret.op = "_normalize_pain_level"
    /\ ret.words = <<"Severe", "3">>
    /\ ret.result = PainLevel_MILD

IsPrefix(s, t) == Len(s) <= Len(t) /\ SubSeq(t, 1, Len(s)) = s

\* C15 as claimed: a pain_level that is set is never unset by a later step of
\* the session (an extracted pain value that matches no rule leaves it alone).
C15_PainLevelKept ==
    [][\A o \in (DOMAIN heap) \cap (DOMAIN heap') :
          heap[o].qualification_data.pain_level # None =>
            heap'[o].qualification_data.pain_level # None]_vars

\* C16 as claimed: after an extraction emergency_indicators holds every
\* indicator it held before, in the same order, possibly followed by new ones.
C16_IndicatorsAppendOnly ==
    ret.op = "_extract_qualification_data" =>
      IsPrefix(ret.current_data.emergency_indicators, ret.result.emergency_indicators)

\* the places of the items that the loop of the extraction assigns as
\* emergency_indicators: non-empty lists, reached before any item raised
IndicatorItems(current_data, response) ==
    {k \in 1..Len(response.items) :
        /\ response.kind = "dict"
        /\ response.items[k].key = "emergency_indicators"
        /\ Len(response.items[k].value) > 0
        /\ ~ApplyItems(current_data, SubSeq(response.items, 1, k - 1)).raised}

\* C16, amended: an extraction that returns a non-empty emergency_indicators
\* list replaces the list of the session by it (the earlier indicators are
\* dropped); every other extraction leaves the list as it was.
C16_IndicatorsReplaced ==
    ret.op = "_extract_qualification_data" =>
      LET response == Extractions[ret.response]
          assigned == IndicatorItems(ret.current_data, response)
      IN IF assigned = {}
         THEN ret.result.emergency_indicators = ret.current_data.emergency_indicators
         ELSE \E k \in assigned :
                ret.result.emergency_indicators = response.items[k].value

C16_Witness ==
    /\ ret.op = "_extract_qualification_data"
    /\ ret.current_data.emergency_indicators = <<"swelling">>
    /\ ret.result.emergency_indicators = <<"fever">>

\* C17: with the turns of a lead processed one at a time, every step that
\* leaves the lead with a stored session (no cleanup_session in between) keeps
\* the history stored before the step as a prefix of the history stored after
\* it: no recorded turn is changed, reordered or removed.
C17_HistoryAppendOnly ==
    [][\A l \in Leads :
          active_sessions[l] # None /\ active_sessions'[l] # None =>
            IsPrefix(heap[active_sessions[l]].conversation_history,
                     heap'[active_sessions'[l]].conversation_history)]_vars

C17_Witness ==
    /\ ret.op = "turn"
    /\ ret.prior_turn_count = MaxTurns - 1
    /\ active_sessions[ret.lead_id] # None
    /\ Len(Stored.conversation_history) = 2 * MaxTurns

\* the messages of the caller's turns in a history
UserTurns(history) ==
    LET idx == {i \in 1..Len(history) : history[i].speaker = "user"}
    IN {history[i].message : i \in idx}

\* turns that began for the same lead while it had no stored session and are
\* both suspended at a model call
Overlap(t1, t2) ==
    /\ t1 # t2
    /\ tasks[t1].pc # "idle" /\ tasks[t2].pc # "idle"
    /\ tasks[t1].lead_id = tasks[t2].lead_id
    /\ tasks[t1].prior_turn_count = 0 /\ tasks[t2].prior_turn_count = 0

ActingLeads ==
    ({tasks[t].lead_id : t \in {u \in Tasks : tasks[u] # tasks'[u]}}
        \cup {tasks'[t].lead_id : t \in {u \in Tasks : tasks[u] # tasks'[u]}}
        \cup (IF ret'.op = "none" THEN {} ELSE {ret'.lead_id}))
    \ {None}

\* the session stored for a lead: no session, or the content of its dict
SessionOf(sessions, h, l) == IF sessions[l] = None THEN <<>> ELSE <<h[sessions[l]]>>

\* no session dict is reachable from two leads: neither as the stored session
\* of both nor as the dict a running turn of the other lead works on
NoSharing ==
    /\ \A a, b \in Leads :
         a # b /\ active_sessions[a] # None => active_sessions[a] # active_sessions[b]
    /\ \A t \in Tasks, b \in Leads :
         tasks[t].pc # "idle" /\ tasks[t].lead_id # b =>
           tasks[t].session_context # active_sessions[b]

\* C19: under any interleaving a step of a turn, a cleanup_session or a
\* get_session_summary for one lead leaves the stored session of every other
\* lead as it was (not created, not changed, not deleted), and no session
\* object is shared between two leads.
C19_LeadsIndependent ==
    [][/\ \A b \in Leads \ ActingLeads :
            /\ active_sessions'[b] = active_sessions[b]
            /\ SessionOf(active_sessions', heap', b) = SessionOf(active_sessions, heap, b)
       /\ Cardinality(ActingLeads) <= 1
       /\ NoSharing']_vars

C19_Witness ==
    /\ ret.op = "turn" /\ ret.lead_id = "lead_1"
    /\ active_sessions["lead_1"] # None
    /\ active_sessions["lead_2"] # None
    /\ Stored = ret.session_context
    /\ Stored.qualification_data.chief_complaint = None
    /\ heap[active_sessions["lead_2"]].qualification_data.chief_complaint = "toothache"
    /\ \E t \in Tasks : tasks[t].pc # "idle" /\ tasks[t].lead_id = "lead_2"

\* C20: cleanup_session never raises and leaves no session for its lead; for a
\* lead without a session (so also when called a second time in a row) it
\* changes nothing; it leaves the sessions of the other leads as they were;
\* and an entry of active_sessions is only ever removed by a cleanup_session
\* of that lead.
C20_CleanupIdempotent ==
    [][/\ ret'.op = "cleanup" =>
            /\ ~ret'.raised
            /\ active_sessions'[ret'.lead_id] = None
            /\ \A b \in Leads \ {ret'.lead_id} :
                 /\ active_sessions'[b] = active_sessions[b]
                 /\ SessionOf(active_sessions', heap', b) = SessionOf(active_sessions, heap, b)
            /\ active_sessions[ret'.lead_id] = None =>
                 /\ ~ret'.deleted
                 /\ UNCHANGED <<active_sessions, heap, tasks, service_vars>>
       /\ \A l \in Leads :
            active_sessions[l] # None /\ active_sessions'[l] = None =>
              ret'.op = "cleanup" /\ ret'.lead_id = l /\ ret'.deleted]_vars

C20_Witness ==
    /\ ret.op = "cleanup" /\ ~ret.deleted /\ ~ret.raised
    /\ active_sessions[ret.lead_id] = None
    /\ \E b \in Leads \ {ret.lead_id} : active_sessions[b] # None

\* C22: generate_first_question never raises and leaves active_sessions and
\* every session as they were; when its model call fails it returns the fixed
\* opening line, otherwise the text of the model.
C22_FirstQuestionFailSoft ==
    [][ret'.op = "generate_first_question" =>
         /\ ~ret'.raised
         /\ UNCHANGED <<active_sessions, heap, tasks, service_vars>>
         /\ ret'.response.kind # "ok" => ret'.result = Chars(FIRST_QUESTION_FALLBACK)
         /\ ret'.response.kind = "ok" => ret'.result # Chars(FIRST_QUESTION_FALLBACK)]_vars

C22_Witness ==
    /\ ret.op = "generate_first_question"
    /\ ret.response.kind = "raise"
    /\ ret.result = Chars(FIRST_QUESTION_FALLBACK)
    /\ active_sessions[ret.lead_id] # None

\* C23: get_session_summary changes no state; it returns None for a lead
\* without a stored session, otherwise the qualification data of the session
\* (pain_level and urgency as their tags), the length of its history as
\* conversation_length and its turn_count.
C23_SummaryOfSession ==
    [][ret'.op = "summary" =>
         /\ UNCHANGED <<active_sessions, heap, tasks, service_vars>>
         /\ IF active_sessions[ret'.lead_id] = None
            THEN ret'.result = <<>>
            ELSE LET session == heap[active_sessions[ret'.lead_id]]
                     summary == ret'.result[1]
                 IN /\ Len(ret'.result) = 1
                    /\ DOMAIN summary =
                         {"qualification_data", "conversation_length", "turn_count"}
                    /\ summary.qualification_data = session.qualification_data
                    /\ summary.qualification_data.pain_level \in PainLevel \cup {None}
                    /\ summary.qualification_data.urgency \in UrgencyLevel
                    /\ summary.conversation_length = Len(session.conversation_history)
                    /\ summary.turn_count = session.turn_count]_vars

C23_Witness ==
    /\ ret.op = "summary"
    /\ ret.result # <<>>
    /\ ret.result[1].turn_count = 2
    /\ ret.result[1].conversation_length = 3
    /\ ret.result[1].qualification_data.pain_level = PainLevel_EMERGENCY
    /\ ret.result[1].qualification_data.urgency = UrgencyLevel_EMERGENCY

\* the steps a turn has run are the first steps of the fixed order
TurnOrder ==
    <<"_extract_qualification_data", "_check_escalation_conditions",
      "_generate_ai_response", "chat.completions.create">>

\* C27: a turn appends the user turn, then runs the extraction, then the
\* escalation check on the data the extraction left, then the question
\* generator; so a turn whose data has pain_level EMERGENCY after the
\* extraction escalates with reason "severe_pain" in that turn, before any
\* call of the generator, whatever the utterance says.
C27_StepsInOrder ==
    /\ \A t \in Tasks :
         tasks[t].pc # "idle" =>
           LET history == heap[tasks[t].session_context].conversation_history
           IN /\ history[Len(history)] = ConversationTurn("user", tasks[t].user_speech)
              /\ IsPrefix(tasks[t].trace, TurnOrder)
    /\ Checked =>
         /\ IsPrefix(SubSeq(ret.trace, 1, Len(ret.trace) - 1), TurnOrder)
              \/ IsPrefix(ret.trace, TurnOrder)
         /\ ret.session_context.qualification_data.pain_level = PainLevel_EMERGENCY =>
              /\ IsEscalate(ret.result)
              /\ ret.result.escalation_reason = "severe_pain"
              /\ ret.trace = SubSeq(TurnOrder, 1, 2)

C27_Witness ==
    /\ Checked
    /\ ret.prior_turn_count = 0
    /\ ret.user_speech = "I'm fine now"
    /\ ret.session_context.qualification_data.pain_level = PainLevel_EMERGENCY
    /\ ret.result.escalation_reason = "severe_pain"

\* ------------------------------------------------------------------ the question generator, applied to given arguments

MaxGenTurns == 11

\* qualification data with each of the four asked fields unset or set
GenData ==
    {[QualificationData EXCEPT !.chief_complaint = c, !.pain_level = p,
                               !.insurance_provider = i,
                               !.preferred_appointment_time = a] :
        c \in {None, "toothache"}, p \in {None, PainLevel_MODERATE},
        i \in {None, "Delta Dental"}, a \in {None, "Monday morning"}}

InitGenerate ==
    /\ active_sessions = [l \in Leads |-> None]
    /\ heap = [o \in {} |-> NewSession]
    /\ tasks = [t \in Tasks |-> IdleTask]
    /\ InitServices
    /\ ret \in {[op |-> "generate_arguments", qualification_data |-> d,
                 turn_count |-> n, response |-> q] :
                   d \in GenData, n \in 1..MaxGenTurns, q \in Questions}

\* one call of _generate_ai_response
GenerateResponse ==
    /\ ret.op = "generate_arguments"
    /\ ret' = [op |-> "_generate_ai_response",
               qualification_data |-> ret.qualification_data,
               turn_count |-> ret.turn_count,
               response |-> ret.response,
               result |-> _generate_ai_response(ret.qualification_data, ret.turn_count,
                                                ret.response)]
    /\ UNCHANGED <<active_sessions, heap, tasks, service_vars>>

NextGenerate == GenerateResponse

SpecGenerate == InitGenerate /\ [][NextGenerate]_vars

\* the asked fields in the order of the table
AskedFields ==
    <<"chief_complaint", "pain_level", "insurance_provider", "preferred_appointment_time">>

CountUser(history) ==
    Cardinality({i \in 1..Len(history) : history[i].speaker = "user"})

\* the turns that are running on the session object o
Running(o) == {t \in Tasks : tasks[t].pc # "idle" /\ tasks[t].session_context = o}

\* the counts of a session agree: turn_count is the number of user turns and
\* the history holds between turn_count and 2 * turn_count turns
CountsAgree(session) ==
    /\ session.turn_count = CountUser(session.conversation_history)
    /\ session.turn_count <= Len(session.conversation_history)
    /\ Len(session.conversation_history) <= 2 * session.turn_count

\* C30 as claimed: in every stored session the counts agree, and the history
\* holds exactly 2 * turn_count turns when no turn of the session escalated.
C30_HistoryIsTwiceTurns ==
    \A l \in Leads :
      active_sessions[l] # None =>
        LET session == heap[active_sessions[l]]
        IN /\ CountsAgree(session)
           /\ session.escalations = 0 =>
                Len(session.conversation_history) = 2 * session.turn_count

\* C30, amended: in every stored session, under any interleaving of turns,
\* the counts agree, and the history holds 2 * turn_count turns less one for
\* each turn of the session that escalated and one for each turn that is
\* running on it (a running turn has appended its user turn and not yet its
\* assistant turn).
C30_HistoryCounts ==
    \A l \in Leads :
      active_sessions[l] # None =>
        LET session == heap[active_sessions[l]]
        IN /\ CountsAgree(session)
           /\ Len(session.conversation_history) =
                2 * session.turn_count - session.escalations
                  - Cardinality(Running(active_sessions[l]))

C30_Witness ==
    /\ active_sessions["lead_1"] # None
    /\ Cardinality(Running(active_sessions["lead_1"])) = 2
    /\ heap[active_sessions["lead_1"]].escalations = 1
    /\ heap[active_sessions["lead_1"]].turn_count = MaxOverlapTurns
    /\ Len(heap[active_sessions["lead_1"]].conversation_history) = 2 * MaxOverlapTurns - 3

\* ------------------------------------------------------------------ one call through /voice/process

MaxCallTurns == 5

\* the extraction finds nothing, the complaint and a moderate pain, an
\* emergency pain, or the insurance and the preferred time
CallExtractions == {4, 5, 6, 8}

\* the last turn of the call returned complete or escalate: the call is over
\* and no request for a further turn of it arrives
CallOver == ret.op = "turn" /\ (IsEscalate(ret.result) \/ IsComplete(ret.result))

\* the requests of one call for lead_1: each runs process_conversation_turn
\* (twilio_service.py line 245).  Nothing else runs: no route, task or timer
\* of the application calls cleanup_session.
NextCall ==
    \/ \E u \in LongSpeech :
         AllIdle /\ ~CallOver /\ StartTurn("task_1", "lead_1", u, MaxCallTurns)
    \/ \E i \in CallExtractions : ExtractReturns("task_1", Extractions[i])
    \/ \E q \in Questions : GenerateReturns("task_1", q)

\* the event loop runs every coroutine that can run, and every model call
\* returns or raises
SpecCall == Init /\ [][NextCall]_vars /\ WF_vars(NextCall)

\* C21 as claimed: once the call has reached a complete or escalate outcome,
\* the session of its lead is eventually removed from active_sessions.
C21_SessionRemoved ==
    (CallOver /\ active_sessions["lead_1"] # None) ~> (active_sessions["lead_1"] = None)

\* ------------------------------------------------------------------ twilio_service.py: the answer of /voice/process

URGENT_TRANSFER_MESSAGE ==
    "I understand this sounds urgent. Let me connect you immediately with one of our dental professionals who can help you right away."

TRANSFER_MESSAGE ==
    "Let me connect you with one of our team members who can better assist you with your dental needs."

APPOINTMENT_MESSAGE ==
    "Perfect! I've scheduled your appointment and you'll receive a confirmation shortly. Thank you for choosing Premier Dental, and we look forward to seeing you soon!"

GOODBYE_MESSAGE ==
    "Thank you for your time today. One of our team members will follow up with you soon regarding your dental needs. Have a great day!"

\* the verbs of a TwiML document, in order; a document is the sequence of its
\* verbs, and an action URL the sequence of its parts
Say(text) == [verb |-> "Say", text |-> text]

Dial(action) == [verb |-> "Dial", number |-> "ESCALATION_PHONE", action |-> action]

Hangup == [verb |-> "Hangup"]

Gather(action, nested) == [verb |-> "Gather", action |-> action, nested |-> nested]

\* create_escalation_twiml, lines 95-120
create_escalation_twiml(lead_id, reason) ==
    <<Say(IF reason = "emergency" THEN URGENT_TRANSFER_MESSAGE ELSE TRANSFER_MESSAGE),
      Dial(<<"/voice/escalation-complete/", lead_id>>)>>

\* create_completion_twiml, lines 122-142
create_completion_twiml(lead_id, appointment_scheduled) ==
    <<Say(IF appointment_scheduled THEN APPOINTMENT_MESSAGE ELSE GOODBYE_MESSAGE),
      Hangup>>

\* create_conversation_twiml, lines 78-93: the function builds a response
\* with the Say and a Gather it never appends, and ends without a return
\* statement: it returns None
create_conversation_twiml(lead_id, prompt, gather_action) == None

\* the document the conversation needs: the prompt, and a Gather of the next
\* speech posted to /voice/<gather_action>/<lead_id>
ConversationDocument(lead_id, prompt, gather_action) ==
    <<Say(prompt), Gather(<<"/voice/", gather_action, "/", lead_id>>, <<>>)>>

\* handle_conversation, lines 249-268, after process_conversation_turn has
\* returned ai_response: the branch is chosen, then the call expression
\* Response(...) is evaluated, callee first.  twilio_service.py neither
\* imports nor defines Response (lines 1-9), so the name lookup raises
\* NameError before the TwiML of the branch is built.
handle_conversation(lead_id, ai_response) ==
    [raised |-> TRUE,
     exception |-> "NameError: name 'Response' is not defined",
     branch |-> IF Get(ai_response, "escalate", FALSE) THEN "escalation"
                ELSE IF Get(ai_response, "complete", FALSE) THEN "completion"
                ELSE "conversation"]

\* results process_conversation_turn returns: the three escalations, and for
\* each data a conclusion, a question and the fallback
RouteResults ==
    {OnException.result,
     [escalate |-> TRUE, escalation_reason |-> "severe_pain",
      response |-> SEVERE_PAIN_MESSAGE],
     [escalate |-> TRUE, escalation_reason |-> "emergency_condition",
      response |-> EMERGENCY_CONDITION_MESSAGE]}
    \cup {TurnResult([NewSession EXCEPT !.qualification_data = d], Conclusion(d)).result :
            d \in GenData}
    \cup {TurnResult([NewSession EXCEPT !.qualification_data = d], Question(q)).result :
            d \in GenData, q \in Questions}

InitRoute ==
    /\ active_sessions = [l \in Leads |-> None]
    /\ heap = [o \in {} |-> NewSession]
    /\ tasks = [t \in Tasks |-> IdleTask]
    /\ InitServices
    /\ ret \in {[op |-> "route_arguments", lead_id |-> l, ai_response |-> r] :
                   l \in Leads, r \in RouteResults}

\* the part of handle_conversation after the turn has returned
HandleConversation ==
    /\ ret.op = "route_arguments"
    /\ ret' = [op |-> "handle_conversation", lead_id |-> ret.lead_id,
               ai_response |-> ret.ai_response,
               result |-> handle_conversation(ret.lead_id, ret.ai_response)]
    /\ UNCHANGED <<active_sessions, heap, tasks, service_vars>>

\* one call of create_conversation_twiml with the response as prompt
CreateConversationTwiml ==
    /\ ret.op = "route_arguments"
    /\ ret' = [op |-> "create_conversation_twiml", lead_id |-> ret.lead_id,
               prompt |-> ret.ai_response.response,
               result |-> create_conversation_twiml(ret.lead_id,
                                                    ret.ai_response.response, "process")]
    /\ UNCHANGED <<active_sessions, heap, tasks, service_vars>>

NextRoute == HandleConversation \/ CreateConversationTwiml

SpecRoute == InitRoute /\ [][NextRoute]_vars

\* C25 as claimed: the handler answers every escalate result with the
\* human-transfer (Dial) TwiML, a complete result with the completion TwiML
\* that hangs up and whose wording follows appointment_scheduled, and only a
\* result that is neither with conversation TwiML.
C25_OutcomeRouted ==
    ret.op = "handle_conversation" =>
      /\ ~ret.result.raised
      /\ ret.result.twiml =
           IF Get(ret.ai_response, "escalate", FALSE)
           THEN create_escalation_twiml(ret.lead_id, ret.ai_response.escalation_reason)
           ELSE IF Get(ret.ai_response, "complete", FALSE)
           THEN create_completion_twiml(ret.lead_id,
                                        ret.ai_response.appointment_scheduled)
           ELSE ConversationDocument(ret.lead_id, ret.ai_response.response, "process")

\* C26 as claimed: create_conversation_twiml returns, for every lead_id and
\* prompt, the document that speaks the prompt and gathers the next speech
\* with action /voice/process/{lead_id}.
C26_ConversationGathers ==
    ret.op = "create_conversation_twiml" =>
      /\ ret.result # None
      /\ ret.result = ConversationDocument(ret.lead_id, ret.prompt, "process")

\* ------------------------------------------------------------------ dnc_service.py and webhook_service.py

DigitChars == {"0", "1", "2", "3", "4", "5", "6", "7", "8", "9"}

\* re.sub(r'[^\d]', '', phone), line 25
RECURSIVE digits_only(_)
digits_only(cs) ==
    IF cs = <<>> THEN <<>>
    ELSE (IF Head(cs) \in DigitChars THEN <<Head(cs)>> ELSE <<>>) \o digits_only(Tail(cs))

\* _normalize_phone_number, lines 23-30: the digits, with a 1 before ten of them
_normalize_phone_number(phone) ==
    LET digits == digits_only(Chars(phone))
    IN IF Len(digits) = 10 THEN <<"1">> \o digits ELSE digits

\* a check that looks the number up as it was written
check_dnc_status_Raw(phone_number, fault) ==
    IF fault THEN TRUE ELSE Chars(phone_number) \in dnc_set

\* check_dnc_status, lines 32-45: whether the normalized number is in the
\* set; when the body of the try raises (fault), True
check_dnc_status(phone_number, fault) ==
    IF fault THEN TRUE ELSE _normalize_phone_number(phone_number) \in dnc_set

\* an add that stores the number as it was written
add_to_dnc_list_Raw(phone_number) ==
    /\ dnc_set' = dnc_set \cup {Chars(phone_number)}
    /\ ret' = [op |-> "add_to_dnc_list", phone_number |-> phone_number, result |-> TRUE]
    /\ UNCHANGED <<active_sessions, heap, tasks, call_sessions, leads, background_tasks>>

\* add_to_dnc_list, lines 47-58
add_to_dnc_list(phone_number) ==
    /\ dnc_set' = dnc_set \cup {_normalize_phone_number(phone_number)}
    /\ ret' = [op |-> "add_to_dnc_list", phone_number |-> phone_number, result |-> TRUE]
    /\ UNCHANGED <<active_sessions, heap, tasks, call_sessions, leads, background_tasks>>

\* remove_from_dnc_list, lines 60-74
remove_from_dnc_list(phone_number) ==
    /\ dnc_set' = dnc_set \ {_normalize_phone_number(phone_number)}
    /\ ret' = [op |-> "remove_from_dnc_list", phone_number |-> phone_number,
               result |-> TRUE]
    /\ UNCHANGED <<active_sessions, heap, tasks, call_sessions, leads, background_tasks>>

\* GHLWebhookPayload.to_lead, models.py lines 103-114, for a contact that
\* has every key
to_lead(payload) ==
    [id |-> payload.contact.id,
     first_name |-> payload.contact.firstName,
     phone |-> payload.contact.phone,
     dnc_status |-> payload.contact.dncStatus]

\* _validate_lead_data, lines 82-85: no required field is empty
_validate_lead_data(lead) ==
    lead.id # "" /\ lead.first_name # "" /\ lead.phone # ""

\* _check_compliance, lines 87-99: check_dnc_status returns in every case, so
\* line 93 sets dnc_checked and line 94 overwrites the lead's dnc_status
_check_compliance(lead, fault) ==
    LET is_dnc == check_dnc_status(lead.phone, fault)
    IN [compliance_flags |-> [dnc_checked |-> TRUE, consent_obtained |-> FALSE,
                              phi_collected |-> FALSE, escalation_triggered |-> FALSE,
                              recording_consent |-> FALSE],
        lead |-> [lead EXCEPT !.dnc_status = is_dnc]]

\* process_webhook, lines 45-80: what it returns or raises, whether it had
\* the DNC set looked up, and the leads and the tasks it leaves.  The
\* HTTPException of line 53 is raised inside the try and caught at line 77,
\* which raises status 500.  background_tasks is the object of the request:
\* empty at the call.
ProcessWebhook(payload, fault) ==
    LET lead == to_lead(payload)
        checked == _check_compliance(lead, fault)
    IN IF ~_validate_lead_data(lead)
       THEN [raised |-> TRUE, status_code |-> 500,
             detail |-> "Webhook processing failed", result |-> <<>>,
             dnc_checks |-> 0, leads |-> leads, background_tasks |-> <<>>]
       ELSE IF ~checked.compliance_flags.dnc_checked \/ checked.lead.dnc_status
       THEN [raised |-> FALSE, status_code |-> 200, detail |-> "",
             result |-> <<[status |-> "skipped", reason |-> "DNC_listed"]>>,
             dnc_checks |-> 1, leads |-> leads, background_tasks |-> <<>>]
       ELSE [raised |-> FALSE, status_code |-> 200, detail |-> "",
             result |-> <<[status |-> "processed", lead_id |-> lead.id,
                           action |-> "call_scheduled"]>>,
             dnc_checks |-> 1,
             leads |-> (lead.id :> checked.lead) @@ leads,
             background_tasks |->
                 IF payload.event = "contact.created"
                 THEN <<[func |-> "_initiate_qualification_call",
                         lead |-> checked.lead,
                         compliance_flags |-> checked.compliance_flags]>>
                 ELSE <<>>]

\* one call of process_webhook.  None of its awaits suspends (the services
\* are in memory), so it runs in one step.
process_webhook(payload, fault) ==
    LET out == ProcessWebhook(payload, fault)
    IN /\ ret' = [op |-> "process_webhook", payload |-> payload, fault |-> fault,
                  raised |-> out.raised, status_code |-> out.status_code,
                  detail |-> out.detail, result |-> out.result]
       /\ leads' = out.leads
       /\ background_tasks' = out.background_tasks
       /\ UNCHANGED <<active_sessions, heap, tasks, call_sessions, dnc_set>>

\* the phone numbers of the requests: two spellings of one number, another
\* number, and none
Phones == {"(555) 123-4567", "15551234567", "555-000-1111", ""}

Payloads ==
    [event : {"contact.created", "contact.updated"},
     contact : [id : {"lead_1", "lead_2", ""},
                firstName : {"Ann", ""},
                phone : Phones,
                dncStatus : BOOLEAN]]

NextWebhook ==
    \/ \E p \in Phones : add_to_dnc_list(p)
    \/ \E p \in Phones : remove_from_dnc_list(p)
    \/ \E payload \in Payloads, fault \in BOOLEAN : process_webhook(payload, fault)

SpecWebhook == Init /\ [][NextWebhook]_vars

\* the DNC check of a request completed without error and found the
\* normalized number absent from the set
DncClear(payload, fault) ==
    ~fault /\ _normalize_phone_number(payload.contact.phone) \notin dnc_set

Skipped == <<[status |-> "skipped", reason |-> "DNC_listed"]>>

\* C24 as claimed: process_webhook schedules the call and stores the lead
\* only when the DNC check completed without error and found the normalized
\* number absent; if the number is on the set or the check failed it returns
\* {status: skipped, reason: DNC_listed}, nothing stored, nothing scheduled.
C24_SkippedWhenListed ==
    [][ret'.op = "process_webhook" =>
         /\ (background_tasks' # <<>> \/ leads' # leads) =>
              DncClear(ret'.payload, ret'.fault)
         /\ ~DncClear(ret'.payload, ret'.fault) =>
              /\ ret'.result = Skipped
              /\ leads' = leads /\ background_tasks' = <<>>]_vars

\* C24, with the validation that comes first: process_webhook schedules the
\* call and stores the lead only when the DNC check completed without error
\* and found the normalized number absent; for a lead whose id, first_name
\* and phone are not empty, a number on the set or a failed check gives
\* {status: skipped, reason: DNC_listed}; a lead with an empty required field
\* is not checked at all and the request fails with an HTTP error; in both
\* cases nothing is stored and nothing is scheduled.
C24_DncGate ==
    [][ret'.op = "process_webhook" =>
         /\ (background_tasks' # <<>> \/ leads' # leads) =>
              /\ DncClear(ret'.payload, ret'.fault)
              /\ _validate_lead_data(to_lead(ret'.payload))
         /\ ~DncClear(ret'.payload, ret'.fault) =>
              /\ leads' = leads /\ background_tasks' = <<>>
              /\ IF _validate_lead_data(to_lead(ret'.payload))
                 THEN ~ret'.raised /\ ret'.result = Skipped
                 ELSE ret'.raised /\ ret'.result = <<>>
         /\ UNCHANGED dnc_set]_vars

\* a request is skipped whose number is on the set in another spelling,
\* after an earlier lead was stored
C24_Witness ==
    /\ ret.op = "process_webhook" /\ ret.result = Skipped /\ ~ret.fault
    /\ ret.payload.contact.phone = "(555) 123-4567"
    /\ DOMAIN leads # {}
    /\ background_tasks = <<>>

\* C31: for turns of one lead processed one at a time without
\* cleanup_session, a turn that returns a continue outcome has brought the
\* stored session's turn_count to at most 9, one more than it was, and the
\* stored turn_count never goes down: no turn that brings turn_count to 10
\* or more continues, so at most 9 continue outcomes follow one another.
C31_ContinueBelowLimit ==
    [][/\ (ret'.op = "turn" /\ IsContinue(ret'.result)) =>
            /\ ret'.session_context.turn_count < TurnLimit
            /\ ret'.session_context.turn_count = ret'.prior_turn_count + 1
            /\ active_sessions'[ret'.lead_id] # None
            /\ heap'[active_sessions'[ret'.lead_id]].turn_count =
                 ret'.session_context.turn_count
       /\ (ret'.op = "turn" /\ ret'.session_context.turn_count >= TurnLimit) =>
            IsEscalate(ret'.result) \/ IsComplete(ret'.result)
       /\ \A l \in Leads : active_sessions[l] # None =>
            /\ active_sessions'[l] # None
            /\ heap'[active_sessions'[l]].turn_count >= heap[active_sessions[l]].turn_count]_vars

\* the tenth turn after nine turns that each got an answer: it completes
\* although fields are still missing
C31_Witness ==
    /\ ret.op = "turn"
    /\ ret.session_context.turn_count = TurnLimit
    /\ Len(ret.session_context.conversation_history) = 2 * TurnLimit
    /\ IsComplete(ret.result)
    /\ _identify_missing_data(ret.session_context.qualification_data) # <<>>

\* the answers a conversation collects as text
AnswerFields == {"chief_complaint", "insurance_provider", "preferred_appointment_time"}

\* the answers data holds are held, non-empty, by later too
AnswersKept(data, later) ==
    \A f \in AnswerFields : ~Falsy(data[f]) => ~Falsy(later[f])

\* C32: within a session, once chief_complaint, insurance_provider or
\* preferred_appointment_time holds a non-empty value it is non-empty after
\* every step of every turn of that session, whatever the extraction returns
\* (a field omitted, an empty value, another value), so the field never
\* re-enters the missing list.
C32_AnswersNeverLost ==
    [][\A o \in (DOMAIN heap) \cap (DOMAIN heap') :
         /\ AnswersKept(heap[o].qualification_data, heap'[o].qualification_data)
         /\ \A f \in AnswerFields :
              f \notin Range(_identify_missing_data(heap[o].qualification_data)) =>
                f \notin Range(_identify_missing_data(heap'[o].qualification_data))
         /\ \A i \in 1..Len(Extractions) :
              AnswersKept(heap[o].qualification_data,
                          _extract_qualification_data(heap[o].qualification_data,
                                                      Extractions[i]))]_vars

\* the third turn or a later one of a session that holds all three answers,
\* collected in two earlier turns
C32_Witness ==
    /\ ret.op = "turn" /\ ret.prior_turn_count >= 2
    /\ active_sessions[ret.lead_id] # None
    /\ heap[active_sessions[ret.lead_id]].turn_count = ret.prior_turn_count + 1
    /\ \A f \in AnswerFields :
         ~Falsy(heap[active_sessions[ret.lead_id]].qualification_data[f])

\* ------------------------------------------------------------------ turns of one lead, with a cleanup at any time

MaxRaceTurns == 3

\* cleanup_session is synchronous: it runs between two steps of a turn as
\* well as between two turns
NextRace ==
    \/ \E u \in LongSpeech : AllIdle /\ StartTurn("task_1", "lead_1", u, MaxRaceTurns)
    \/ \E i \in CallExtractions : ExtractReturns("task_1", Extractions[i])
    \/ \E q \in Questions : GenerateReturns("task_1", q)
    \/ cleanup_session("lead_1")

SpecRace == Init /\ [][NextRace]_vars

\* C33 as claimed: when cleanup_session has deleted the session of a lead
\* while a turn of that lead was suspended at a model call, the lead has no
\* session in active_sessions once the turn has returned.  (A turn whose
\* return follows a finished cleanup was suspended when the cleanup ran: a
\* turn that starts afterwards sets ret to none.)
C33_CleanupWins ==
    [][(/\ ret.op = "cleanup" /\ ret.deleted
        /\ ret'.op = "turn" /\ ret'.lead_id = ret.lead_id) =>
          active_sessions'[ret.lead_id] = None]_vars

\* the descriptive values the extraction prompt names (line 178), each with
\* the PainLevel of the same name
DescriptivePain ==
    [none |-> PainLevel_NONE, mild |-> PainLevel_MILD, moderate |-> PainLevel_MODERATE,
     severe |-> PainLevel_SEVERE, emergency |-> PainLevel_EMERGENCY]

\* C34 as claimed: _normalize_pain_level maps each descriptive value of the
\* extraction prompt (none, mild, moderate, severe, emergency) to the
\* PainLevel of the same name, so that an extracted "emergency" gives
\* EMERGENCY (and with it the severe_pain escalation).
C34_DescriptiveByName ==
    (/\ ret.op = "_normalize_pain_level"
     /\ Len(ret.words) = 1
     /\ ret.words[1] \in DOMAIN DescriptivePain) =>
        ret.result = DescriptivePain[ret.words[1]]

\* C35 as claimed: process_webhook never schedules the qualification call of
\* a lead whose payload carries dncStatus = true, whether or not the number
\* is in the DNC set.
C35_PayloadDncRespected ==
    (ret.op = "process_webhook" /\ ret.payload.contact.dncStatus) =>
        background_tasks = <<>>

\* ------------------------------------------------------------------ webhook_service.py: the route /webhooks/ghl

\* the value of GHL_WEBHOOK_SECRET
WEBHOOK_SECRET == "GHL_WEBHOOK_SECRET"

\* hmac.new(key, payload, sha256).hexdigest(): a digest is told apart by
\* its key and its message
hexdigest(key, payload) == <<"hmac_sha256", key, payload>>

\* the X-Signature-256 header: the digest it carries, after 'sha256=' or bare;
\* a request without the header has the empty string (line 151)
Header(prefixed, digest) == [prefixed |-> prefixed, digest |-> digest]

\* a verification that accepts the digest of any body under the secret
verify_webhook_signature_AnyBody(payload, signature) ==
    /\ signature.digest # <<>>
    /\ signature.digest[2] = WEBHOOK_SECRET

\* verify_webhook_signature, lines 27-43: the prefix is cut off when there is
\* one, and the rest is compared with the digest of this body
verify_webhook_signature(payload, signature) ==
    LET expected_signature == hexdigest(WEBHOOK_SECRET, payload)
        bare == signature.digest
    IN expected_signature = bare

\* the bodies of the requests: the JSON of a payload, bytes that are no
\* JSON, and JSON that is no payload
RoutePayloads ==
    [event : {"contact.created"},
     contact : [id : {"lead_1", ""},
                firstName : {"Ann"},
                phone : {"(555) 123-4567", "555-000-1111"},
                dncStatus : {FALSE}]]

Bodies ==
    {[kind |-> "payload", payload |-> p] : p \in RoutePayloads}
    \cup {[kind |-> "not_json", payload |-> None], [kind |-> "not_payload", payload |-> None]}

Requests ==
    {[body |-> b, signature |-> Header(x, d)] :
        b \in Bodies, x \in BOOLEAN,
        d \in {hexdigest(WEBHOOK_SECRET, c) : c \in Bodies}
              \cup {hexdigest("another secret", c) : c \in Bodies} \cup {<<>>}}

\* handle_ghl_webhook, lines 143-174: what the caller of the route receives.
\* An HTTPException goes to the caller as it is (line 165); parsed tells
\* whether json.loads was reached.
handle_ghl_webhook(request, fault) ==
    LET base == [op |-> "handle_ghl_webhook", request |-> request, fault |-> fault]
        rejected(status_code, detail, parsed) ==
            /\ ret' = base @@ [raised |-> TRUE, status_code |-> status_code,
                               detail |-> detail, result |-> <<>>,
                               parsed |-> parsed, dnc_checks |-> 0]
            /\ background_tasks' = <<>>
            /\ UNCHANGED <<active_sessions, heap, tasks, call_sessions, dnc_set, leads>>
    IN IF ~verify_webhook_signature(request.body, request.signature)
       THEN rejected(401, "Invalid signature", FALSE)
       ELSE IF request.body.kind = "not_json"
       THEN rejected(400, "Invalid JSON", TRUE)
       ELSE IF request.body.kind = "not_payload"
       THEN rejected(500, "Internal server error", TRUE)
       ELSE LET out == ProcessWebhook(request.body.payload, fault)
            IN /\ ret' = base @@ [raised |-> out.raised,
                                  status_code |-> out.status_code,
                                  detail |-> out.detail, result |-> out.result,
                                  parsed |-> TRUE, dnc_checks |-> out.dnc_checks]
               /\ leads' = out.leads
               /\ background_tasks' = out.background_tasks
               /\ UNCHANGED <<active_sessions, heap, tasks, call_sessions, dnc_set>>

NextGhl ==
    \/ \E p \in Phones : add_to_dnc_list(p)
    \/ \E p \in Phones : remove_from_dnc_list(p)
    \/ \E request \in Requests, fault \in BOOLEAN : handle_ghl_webhook(request, fault)

SpecGhl == Init /\ [][NextGhl]_vars

\* the signature of the request is the HMAC of its body under the secret
SignatureMatches(request) ==
    request.signature.digest = hexdigest(WEBHOOK_SECRET, request.body)

\* C36: a request whose signature does not match the HMAC of its body is
\* rejected with status 401 before the payload is parsed: no lead is stored,
\* no DNC check is made and no call task is scheduled.
C36_BadSignatureRejected ==
    [][(ret'.op = "handle_ghl_webhook" /\ ~SignatureMatches(ret'.request)) =>
          /\ ret'.raised /\ ret'.status_code = 401
          /\ ~ret'.parsed
          /\ ret'.dnc_checks = 0
          /\ leads' = leads
          /\ background_tasks' = <<>>
          /\ dnc_set' = dnc_set]_vars

\* a request for a valid lead is rejected that carries the digest of another
\* body under the right secret, after an earlier request stored a lead
C36_Witness ==
    /\ ret.op = "handle_ghl_webhook" /\ ret.status_code = 401
    /\ ret.request.body.kind = "payload"
    /\ _validate_lead_data(to_lead(ret.request.body.payload))
    /\ ret.request.signature.digest # <<>>
    /\ ret.request.signature.digest[2] = WEBHOOK_SECRET
    /\ DOMAIN leads # {}
    /\ dnc_set = {}

\* C37 as claimed: a lead whose id, first_name or phone is empty is rejected
\* with HTTP status 400 ("Invalid lead data"), which is the status the caller
\* of the /webhooks/ghl route receives; no lead is stored and no call is
\* scheduled for it.
C37_InvalidLeadIs400 ==
    [][(/\ ret'.op = "handle_ghl_webhook"
        /\ SignatureMatches(ret'.request)
        /\ ret'.request.body.kind = "payload"
        /\ ~_validate_lead_data(to_lead(ret'.request.body.payload))) =>
          /\ ret'.raised
          /\ ret'.status_code = 400 /\ ret'.detail = "Invalid lead data"
          /\ leads' = leads
          /\ background_tasks' = <<>>]_vars

\* ------------------------------------------------------------------ dnc_service.py: the DNC set on its own

\* three spellings of one number, another number, a short number and none
DncPhones == {"(555) 123-4567", "15551234567", "5551234567", "555-000-1111", "911", ""}

\* one call of check_dnc_status whose lookup does not fail
CheckDnc(phone_number) ==
    /\ ret' = [op |-> "check_dnc_status", phone_number |-> phone_number,
               result |-> check_dnc_status(phone_number, FALSE)]
    /\ UNCHANGED <<active_sessions, heap, tasks, service_vars>>

NextDnc ==
    \/ \E p \in DncPhones : add_to_dnc_list(p)
    \/ \E p \in DncPhones : remove_from_dnc_list(p)
    \/ \E p \in DncPhones : CheckDnc(p)

SpecDnc == Init /\ [][NextDnc]_vars

\* digits only, and not ten of them
IsNormalized(cs) == digits_only(cs) = cs /\ Len(cs) # 10

\* C38: the DNC set is a set over normalized numbers.  Every member is
\* normalized; add_to_dnc_list(p) adds the normal form of p and nothing else
\* (so adding a number twice equals adding it once); remove_from_dnc_list(p)
\* takes the normal form of p out, returns True and leaves a set without it
\* unchanged; check_dnc_status(q) is true exactly when a number with the
\* normal form of q was added and none was removed since, i.e. when the
\* normal form of q is a member.
C38_SetOfNormalized ==
    [][/\ \A m \in dnc_set' : IsNormalized(m)
       /\ ret'.op = "add_to_dnc_list" =>
            /\ ret'.result
            /\ dnc_set' = dnc_set \cup {_normalize_phone_number(ret'.phone_number)}
            /\ \A q \in DncPhones :
                 _normalize_phone_number(q) = _normalize_phone_number(ret'.phone_number)
                   => _normalize_phone_number(q) \in dnc_set'
            /\ _normalize_phone_number(ret'.phone_number) \in dnc_set => dnc_set' = dnc_set
       /\ ret'.op = "remove_from_dnc_list" =>
            /\ ret'.result
            /\ dnc_set' = dnc_set \ {_normalize_phone_number(ret'.phone_number)}
            /\ _normalize_phone_number(ret'.phone_number) \notin dnc_set => dnc_set' = dnc_set
       /\ ret'.op = "check_dnc_status" =>
            /\ ret'.result = (\E m \in dnc_set :
                                m = _normalize_phone_number(ret'.phone_number))
            /\ dnc_set' = dnc_set]_vars

\* a number is found in the spelling with brackets while the set holds
\* nothing but its normal form, and another spelling of it
C38_Witness ==
    /\ ret.op = "check_dnc_status" /\ ret.result
    /\ ret.phone_number = "(555) 123-4567"
    /\ dnc_set = {_normalize_phone_number("5551234567")}

\* ------------------------------------------------------------------ twilio_service.py: call start and call status

MaxCallSessions == 2

CallStatus_IN_PROGRESS == "in_progress"

CallSids == {"CA1", "CA2"}

\* the form Twilio posts: AnsweredBy and CallSid at the start of a call,
\* CallStatus and CallSid with a status callback
StartForms == [AnsweredBy : {"human", "machine_start"}, CallSid : CallSids]

StatusForms == [CallStatus : {"ringing", "completed"}, CallSid : CallSids]

\* hasattr(session, name) for a CallSession (models.py lines 48-58)
hasattr(session, name) == name \in DOMAIN session

\* create_call_session, dnc_service.py lines 112-116
create_call_session(sessions, session) ==
    (session.session_id :> session) @@ sessions

\* the first session in the order of the dict (the order of creation) that
\* passes the test of line 128, if there is one
Matching(sessions, call_sid) ==
    {id \in DOMAIN sessions :
        /\ hasattr(sessions[id], "call_sid") /\ sessions[id].call_sid = call_sid
        /\ \A other \in DOMAIN sessions :
             (hasattr(sessions[other], "call_sid") /\ sessions[other].call_sid = call_sid)
               => other[3] >= id[3]}

\* update_call_session_status, dnc_service.py lines 125-132
update_call_session_status(sessions, call_sid, status) ==
    [id \in DOMAIN sessions |->
        IF id \in Matching(sessions, call_sid)
        THEN [sessions[id] EXCEPT !.status = status] ELSE sessions[id]]

\* handle_call_start, lines 193-217, from the form on.  A machine gets no
\* session.  Otherwise the session is created and stored (its id carries the
\* time of the call, here the number of the call); then, as in every voice
\* handler, Response is an unbound name and the request fails.
handle_call_start(lead_id, form) ==
    /\ Cardinality(DOMAIN call_sessions) < MaxCallSessions
    /\ IF form.AnsweredBy = "machine_start"
       THEN UNCHANGED call_sessions
       ELSE call_sessions' =
              create_call_session(call_sessions,
                  [session_id |-> <<"session", lead_id, Cardinality(DOMAIN call_sessions) + 1>>,
                   lead_id |-> lead_id,
                   twilio_call_sid |-> form.CallSid,
                   status |-> CallStatus_IN_PROGRESS])
    /\ ret' = [op |-> "handle_call_start", lead_id |-> lead_id, form |-> form,
               raised |-> TRUE,
               exception |-> "NameError: name 'Response' is not defined"]
    /\ UNCHANGED <<active_sessions, heap, tasks, dnc_set, leads, background_tasks>>

\* handle_call_status, lines 270-280
handle_call_status(lead_id, form) ==
    /\ call_sessions' =
         update_call_session_status(call_sessions, form.CallSid, form.CallStatus)
    /\ ret' = [op |-> "handle_call_status", lead_id |-> lead_id, form |-> form,
               raised |-> FALSE, result |-> [status |-> "received"]]
    /\ UNCHANGED <<active_sessions, heap, tasks, dnc_set, leads, background_tasks>>

NextVoice ==
    \/ \E l \in Leads, form \in StartForms : handle_call_start(l, form)
    \/ \E l \in Leads, form \in StatusForms : handle_call_status(l, form)

SpecVoice == Init /\ [][NextVoice]_vars

\* C39 as claimed: after handle_call_status ran with CallSid s and
\* CallStatus c, the call session created at call start with
\* twilio_call_sid = s has status c, and every other call session is as it
\* was.
C39_StatusStored ==
    [][ret'.op = "handle_call_status" =>
         /\ DOMAIN call_sessions' = DOMAIN call_sessions
         /\ \A id \in DOMAIN call_sessions :
              call_sessions'[id] =
                IF call_sessions[id].twilio_call_sid = ret'.form.CallSid
                THEN [call_sessions[id] EXCEPT !.status = ret'.form.CallStatus]
                ELSE call_sessions[id]]_vars

\* ------------------------------------------------------------------ ghl_service.py: the tags of a qualified lead

LowerLetters == <<"a", "b", "c", "d", "e", "f", "g", "h", "i", "j", "k", "l", "m", "n", "o", "p", "q", "r", "s", "t", "u", "v", "w", "x", "y", "z">>

UpperLetters == <<"A", "B", "C", "D", "E", "F", "G", "H", "I", "J", "K", "L", "M", "N", "O", "P", "Q", "R", "S", "T", "U", "V", "W", "X", "Y", "Z">>

IsLetter(c) == \E i \in 1..26 : c = LowerLetters[i] \/ c = UpperLetters[i]

UpperOf(c) == IF \E i \in 1..26 : c = LowerLetters[i]
              THEN UpperLetters[CHOOSE i \in 1..26 : c = LowerLetters[i]] ELSE c

LowerOf(c) == IF \E i \in 1..26 : c = UpperLetters[i]
              THEN LowerLetters[CHOOSE i \in 1..26 : c = UpperLetters[i]] ELSE c

\* str.title(): a letter after no letter in upper case, every other letter
\* in lower case
title(cs) ==
    [i \in 1..Len(cs) |->
        IF i = 1 \/ ~IsLetter(cs[i - 1]) THEN UpperOf(cs[i]) ELSE LowerOf(cs[i])]

\* line 314: pain_level in ["severe", "emergency"].  pain_level is a member
\* of PainLevel (a str: it equals a string that is its value) or None
PainTagWanted(pain_level) == pain_level \in {"severe", "emergency"}

\* process_qualification_results, lines 300-318: the tags it asks
\* add_contact_tag for, in order, and those it reports as added; tag_added
\* tells whether a request succeeds
process_qualification_results(qualification_data, tag_added) ==
    LET urgency_tag == Chars("AI-Qualified-") \o title(Chars(qualification_data.urgency))
        pain_tags == IF PainTagWanted(qualification_data.pain_level)
                     THEN <<Chars("Pain-Level-")
                              \o title(Chars(qualification_data.pain_level))>>
                     ELSE <<>>
        requested == <<urgency_tag>> \o pain_tags
    IN [tags_requested |-> requested,
        tags_added |-> IF tag_added THEN requested ELSE <<>>]

\* the data of a finished qualification
ResultData ==
    {[QualificationData EXCEPT !.chief_complaint = c, !.pain_level = p, !.urgency = u] :
        c \in {None, "toothache"},
        p \in PainLevel \cup {None},
        u \in UrgencyLevel}

InitResults ==
    /\ active_sessions = [l \in Leads |-> None]
    /\ heap = [o \in {} |-> NewSession]
    /\ tasks = [t \in Tasks |-> IdleTask]
    /\ InitServices
    /\ ret \in {[op |-> "results_arguments", lead_id |-> l, qualification_data |-> d] :
                   l \in Leads, d \in ResultData}

\* one call of process_qualification_results
ProcessResults(tag_added) ==
    /\ ret.op = "results_arguments"
    /\ ret' = [op |-> "process_qualification_results", lead_id |-> ret.lead_id,
               qualification_data |-> ret.qualification_data,
               tag_added |-> tag_added,
               result |-> process_qualification_results(ret.qualification_data,
                                                        tag_added)]
    /\ UNCHANGED <<active_sessions, heap, tasks, service_vars>>

NextResults == \E tag_added \in BOOLEAN : ProcessResults(tag_added)

SpecResults == InitResults /\ [][NextResults]_vars

\* a tag that begins with Pain-Level- is among the tags
HasPainTag(tags) ==
    \E i \in 1..Len(tags) :
        /\ Len(tags[i]) >= Len(Chars("Pain-Level-"))
        /\ SubSeq(tags[i], 1, Len(Chars("Pain-Level-"))) = Chars("Pain-Level-")

\* C40 as claimed: process_qualification_results requests a Pain-Level tag
\* whenever the pain_level of the data is SEVERE or EMERGENCY, and for no
\* other pain level.
C40_PainTagForSevere ==
    ret.op = "process_qualification_results" =>
        (HasPainTag(ret.result.tags_requested)
           <=> ret.qualification_data.pain_level \in {PainLevel_SEVERE, PainLevel_EMERGENCY})

====
